---- MODULE Spec2Model ----
(***************************************************************************)
(* A model of the mobile_rag_engine retrieval core: the SQLite store       *)
(* (sources, chunks, legacy docs), the BM25 inverted index, the HNSW       *)
(* index, the recent-insert buffer and the hybrid retriever.               *)
(*                                                                         *)
(* Conventions.                                                            *)
(*   - A text is a sequence of one-character strings.                      *)
(*   - Option<T> is a sequence of length 0 (None) or 1 (Some).             *)
(*   - A table is the sequence of its rows in rowid order.                 *)
(*   - f32/f64 arithmetic is modelled exactly over rationals where the     *)
(*     code only compares values (cosine similarity, RRF score), and in    *)
(*     fixed point where it takes a logarithm (BM25 idf).                  *)
(***************************************************************************)
EXTENDS Integers, Sequences, FiniteSets, TLC

VARIABLES
    foreign_keys, \* whether the SQLite library in use enforces FOREIGN KEY clauses
    assigned,   \* history, kept when Some: per table the largest id given to a row so far
    DB_POOL,    \* the cell of the connection pool: unset, or set to an optional pool
    sources,    \* table sources: rows [id, content, content_hash, metadata]
    chunks,     \* table chunks: rows [id, source_id, chunk_index, content, embedding]
    docs,       \* legacy table docs: rows [id, content, content_hash, embedding]
    bm25,       \* INVERTED_INDEX: [postings, doc_meta, doc_count, total_tokens]
    hnsw,       \* HNSW_INDEX: Option of the sequence of inserted points
    buffer,     \* RECENT_BUFFER: sequence of [id, embedding]
    resp,       \* the value returned by the call the caller made last
    pc,         \* position of the search_hybrid call in flight (worker steps)
    seen        \* what the in-flight search_hybrid call has read so far

vars == <<foreign_keys, assigned, DB_POOL, sources, chunks, docs, bm25, hnsw, buffer, resp, pc, seen>>

-----------------------------------------------------------------------------
(* Bounds of the model.                                                    *)

MaxSources == 2
MaxChunks == 3
MaxDocs == 2
MaxBatch == 2
MaxTopK == 2
\* the largest rowid the tables are let to reach
MaxSourceId == 3
MaxChunkId == 4
\* the chunks stored before the searches of the retriever specifications
MaxSearchChunks == 2

-----------------------------------------------------------------------------
(* Generic helpers.                                                        *)

None == <<>>
Some(x) == <<x>>
IsSome(o) == Len(o) = 1

Range(s) == {s[i] : i \in 1..Len(s)}

Min2(a, b) == IF a <= b THEN a ELSE b

Take(s, n) == SubSeq(s, 1, Min2(n, Len(s)))

RECURSIVE Filter(_, _)
\* the subsequence of s whose elements are in the set keep (Vec::retain)
Filter(s, keep) ==
    IF s = <<>> THEN <<>>
    ELSE IF Head(s) \in keep THEN <<Head(s)>> \o Filter(Tail(s), keep)
    ELSE Filter(Tail(s), keep)

\* all orderings of the finite set S as sequences without repetition
Perms(S) ==
    {p \in [1..Cardinality(S) -> S] : \A i, j \in 1..Cardinality(S) : p[i] = p[j] => i = j}

RECURSIVE SortedIntsDesc(_)
\* the elements of a finite set of integers in descending order
SortedIntsDesc(S) ==
    IF S = {} THEN <<>>
    ELSE LET m == CHOOSE x \in S : \A y \in S : x >= y
         IN  <<m>> \o SortedIntsDesc(S \ {m})

RECURSIVE SortedInts(_)
\* the elements of a finite set of integers in ascending order (sort + dedup)
SortedInts(S) ==
    IF S = {} THEN <<>>
    ELSE LET m == CHOOSE x \in S : \A y \in S : x <= y
         IN  <<m>> \o SortedInts(S \ {m})

-----------------------------------------------------------------------------
(* Texts and tokenisation.                                                 *)

UpperChars == {"A", "B", "C", "M", "P"}
LowerChars == {"a", "b", "c", "m", "p", "k", "v", "s"}
DigitChars == {"1", "2"}

ToLowerChar(c) ==
    CASE c = "A" -> "a"
      [] c = "B" -> "b"
      [] c = "C" -> "c"
      [] c = "M" -> "m"
      [] c = "P" -> "p"
      [] OTHER -> c

ToLowercase(text) == [i \in 1..Len(text) |-> ToLowerChar(text[i])]

\* the characters str::split does NOT split on: alphanumeric or underscore
IsTokenChar(c) == c \in UpperChars \cup LowerChars \cup DigitChars \cup {"_"}

RECURSIVE SplitPieces(_, _)
\* str::split(|c| !c.is_alphanumeric() && c != '_'): every maximal piece
\* between separators, empty pieces included. cur is the piece being read.
SplitPieces(text, cur) ==
    IF text = <<>> THEN <<cur>>
    ELSE IF IsTokenChar(Head(text)) THEN SplitPieces(Tail(text), Append(cur, Head(text)))
    ELSE <<cur>> \o SplitPieces(Tail(text), <<>>)

MinTokenLen == 2

tokenize_for_bm25(text) ==
    SelectSeq(SplitPieces(ToLowercase(text), <<>>), LAMBDA s : Len(s) >= MinTokenLen)

\* number of occurrences of token t in the token sequence toks
RECURSIVE CountOf(_, _)
CountOf(toks, t) ==
    IF toks = <<>> THEN 0
    ELSE (IF Head(toks) = t THEN 1 ELSE 0) + CountOf(Tail(toks), t)

RECURSIVE Like(_, _)
\* SQLite's  s LIKE p  on non-NULL operands: % any run, _ any one
\* character, ASCII letters compared without case.
Like(s, p) ==
    IF p = <<>> THEN s = <<>>
    ELSE IF Head(p) = "%" THEN Like(s, Tail(p)) \/ (s # <<>> /\ Like(Tail(s), p))
    ELSE /\ s # <<>>
         /\ (Head(p) = "_" \/ ToLowerChar(Head(p)) = ToLowerChar(Head(s)))
         /\ Like(Tail(s), Tail(p))

\* SHA-256 of the content, hex formatted; collision-free on the model's texts
hash_content(content) == <<"sha256">> \o content

-----------------------------------------------------------------------------
(* Embeddings and their BLOB encoding.                                     *)

\* f32::to_ne_bytes for the component values the model uses (little endian)
F32Bytes(f) ==
    CASE f = 0 -> <<0, 0, 0, 0>>
      [] f = 1 -> <<0, 0, 128, 63>>
      [] f = 2 -> <<0, 0, 0, 64>>

\* f32::from_ne_bytes on a 4-byte chunk
F32FromBytes(b) ==
    CASE b = <<0, 0, 0, 0>> -> 0
      [] b = <<0, 0, 128, 63>> -> 1
      [] b = <<0, 0, 0, 64>> -> 2

RECURSIVE EmbeddingToBlob(_)
EmbeddingToBlob(e) ==
    IF e = <<>> THEN <<>> ELSE F32Bytes(Head(e)) \o EmbeddingToBlob(Tail(e))

\* whether blob.chunks(4).map(from_ne_bytes(c.try_into().unwrap())) panics:
\* the last chunk of a blob whose length is no multiple of 4 is short
BlobDecodePanics(blob) == Len(blob) % 4 # 0

RECURSIVE BlobToEmbedding(_)
BlobToEmbedding(blob) ==
    IF Len(blob) < 4 THEN <<>>
    ELSE <<F32FromBytes(SubSeq(blob, 1, 4))>> \o BlobToEmbedding(SubSeq(blob, 5, Len(blob)))

RECURSIVE Dot(_, _)
Dot(a, b) ==
    IF a = <<>> \/ b = <<>> THEN 0 ELSE Head(a) * Head(b) + Dot(Tail(a), Tail(b))

NormSq(a) == Dot(a, a)

\* Cosine similarity as the exact rational sign * num / den of its square:
\* sim = dot / (|q| |t|), and 0 when either norm is 0.
SimSq(q, t) ==
    IF NormSq(q) = 0 \/ NormSq(t) = 0 THEN [sign |-> 0, num |-> 0, den |-> 1]
    ELSE LET d == Dot(q, t)
         IN  [sign |-> IF d > 0 THEN 1 ELSE IF d < 0 THEN 0 - 1 ELSE 0,
              num |-> d * d, den |-> NormSq(q) * NormSq(t)]

\* sim(q, a) < sim(q, b)
SimLess(q, a, b) ==
    LET x == SimSq(q, a)
        y == SimSq(q, b)
    IN  x.sign * x.num * y.den < y.sign * y.num * x.den

\* distance = 1 - sim, so  dist(q, a) < dist(q, b)  iff  sim(q, b) < sim(q, a)
DistLess(q, a, b) == SimLess(q, b, a)

-----------------------------------------------------------------------------
(* The store: SQLite tables.                                               *)

\* the rowid SQLite gives the next row of an INTEGER PRIMARY KEY table
\* (no AUTOINCREMENT): one more than the largest rowid in use, 1 when empty
NextRowId(table) == IF table = <<>> THEN 1 ELSE table[Len(table)].id + 1

\* the largest rowid in use, 0 for an empty table
LastRowId(table) == IF table = <<>> THEN 0 ELSE table[Len(table)].id

\* the history of the ids given so far, after an insert left the table as it is
Record(history, name, table) ==
    IF history = None THEN None
    ELSE Some([history[1] EXCEPT
                  ![name] = IF LastRowId(table) > @ THEN LastRowId(table) ELSE @])

RowIds(table) == {table[i].id : i \in 1..Len(table)}

RowById(table, id) == table[CHOOSE i \in 1..Len(table) : table[i].id = id]

\* a lookup that never finds the stored row
FindSourceByHashMiss(tbl, h) == None

\* SELECT id FROM sources WHERE content_hash = ?  (.ok(): None when no row)
FindSourceByHash(tbl, h) ==
    IF \E i \in 1..Len(tbl) : tbl[i].content_hash = h
    THEN Some(tbl[CHOOSE i \in 1..Len(tbl) : tbl[i].content_hash = h].id)
    ELSE None

\* add_source: the table after the call and the AddSourceResult
add_source(tbl, content, metadata) ==
    LET content_hash == hash_content(content)
        existing == FindSourceByHash(tbl, content_hash)
    IN  IF IsSome(existing)
        THEN [table |-> tbl, source_id |-> existing[1], is_duplicate |-> TRUE]
        ELSE LET source_id == NextRowId(tbl)
             IN  [table |-> Append(tbl, [id |-> source_id, content |-> content,
                                         content_hash |-> content_hash,
                                         metadata |-> metadata]),
                  source_id |-> source_id, is_duplicate |-> FALSE]

\* one INSERT INTO chunks of add_chunks' loop, on the transaction's view
InsertChunk(tbl, source_id, chunk) ==
    Append(tbl, [id |-> NextRowId(tbl), source_id |-> source_id,
                 chunk_index |-> chunk.chunk_index, content |-> chunk.content,
                 embedding |-> EmbeddingToBlob(chunk.embedding)])

RECURSIVE TxExecuteAll(_, _, _, _)
\* The loop of add_chunks inside the transaction. fail_at = i > 0 makes the
\* i-th tx.execute return Err (the ? leaves the function); the result is the
\* transaction's view of the table and whether the loop was left early.
TxExecuteAll(tbl, source_id, batch, fail_at) ==
    IF batch = <<>> THEN [view |-> tbl, failed |-> FALSE]
    ELSE IF fail_at = 1 THEN [view |-> tbl, failed |-> TRUE]
    ELSE TxExecuteAll(InsertChunk(tbl, source_id, Head(batch)), source_id,
                      Tail(batch), fail_at - 1)

\* a Transaction whose drop behaviour is DropBehavior::Commit: what was
\* inserted before the failing statement is kept
TxDropCommits(committed, view) == view

\* a rusqlite Transaction dropped without commit rolls back (the default
\* DropBehavior): the committed table is the one from before the transaction
TxDrop(committed, view) == committed

\* add_chunks: the committed table after the call and whether it returned Ok.
\* fail_at = 0: no statement fails; 1..Len(batch): that insert fails;
\* Len(batch) + 1: tx.commit() fails.
add_chunks(tbl, source_id, batch, fail_at) ==
    LET tx == TxExecuteAll(tbl, source_id, batch, fail_at)
    IN  IF tx.failed \/ fail_at = Len(batch) + 1
        THEN [table |-> TxDrop(tbl, tx.view), ok |-> FALSE, value |-> 0]
        ELSE [table |-> tx.view, ok |-> TRUE, value |-> Len(batch)]

\* delete_source: DELETE FROM chunks WHERE source_id = ?, then the source row
DeleteChunksOf(tbl, source_id) == SelectSeq(tbl, LAMBDA r : r.source_id # source_id)

DeleteRow(tbl, id) == SelectSeq(tbl, LAMBDA r : r.id # id)

\* s.metadata of  chunks c LEFT JOIN sources s ON c.source_id = s.id
JoinedMetadata(srcs, source_id) ==
    IF source_id \in RowIds(srcs) THEN RowById(srcs, source_id).metadata ELSE None

-----------------------------------------------------------------------------
(* The BM25 inverted index.                                                *)

EmptyIndex ==
    [postings |-> <<>>, doc_meta |-> <<>>, doc_count |-> 0, total_tokens |-> 0]

\* an add_document without the check for an id that is already indexed
Bm25AddDocumentAgain(index, doc_id, content) ==
    LET tokens == tokenize_for_bm25(content)
        doc_length == Len(tokens)
        terms == Range(tokens)
    IN  IF doc_length = 0 THEN index
        ELSE [postings |->
                  [t \in DOMAIN index.postings \cup terms |->
                      IF t \in terms
                      THEN Append(IF t \in DOMAIN index.postings
                                  THEN index.postings[t] ELSE <<>>,
                                  <<doc_id, CountOf(tokens, t)>>)
                      ELSE index.postings[t]],
              doc_meta |-> (doc_id :> doc_length) @@ index.doc_meta,
              doc_count |-> index.doc_count + 1,
              total_tokens |-> index.total_tokens + doc_length]

\* InvertedIndex::add_document
Bm25AddDocument(index, doc_id, content) ==
    IF doc_id \in DOMAIN index.doc_meta THEN index
    ELSE LET tokens == tokenize_for_bm25(content)
             doc_length == Len(tokens)
             terms == Range(tokens)
         IN  IF doc_length = 0 THEN index
             ELSE [postings |->
                       [t \in DOMAIN index.postings \cup terms |->
                           IF t \in terms
                           THEN Append(IF t \in DOMAIN index.postings
                                       THEN index.postings[t] ELSE <<>>,
                                       <<doc_id, CountOf(tokens, t)>>)
                           ELSE index.postings[t]],
                   doc_meta |-> (doc_id :> doc_length) @@ index.doc_meta,
                   doc_count |-> index.doc_count + 1,
                   total_tokens |-> index.total_tokens + doc_length]

RECURSIVE Bm25AddDocuments(_, _)
\* bm25_add_documents: add_document for every (id, content) pair in order
Bm25AddDocuments(index, pairs) ==
    IF pairs = <<>> THEN index
    ELSE Bm25AddDocuments(Bm25AddDocument(index, Head(pairs)[1], Head(pairs)[2]),
                          Tail(pairs))

\* a remove_document that drops the metadata and leaves the postings
Bm25RemoveDocumentKeepsPostings(index, doc_id) ==
    IF doc_id \notin DOMAIN index.doc_meta THEN index
    ELSE [postings |-> index.postings,
          doc_meta |-> [d \in DOMAIN index.doc_meta \ {doc_id} |-> index.doc_meta[d]],
          doc_count |-> IF index.doc_count > 0 THEN index.doc_count - 1 ELSE 0,
          total_tokens |->
              IF index.total_tokens > index.doc_meta[doc_id]
              THEN index.total_tokens - index.doc_meta[doc_id] ELSE 0]

\* InvertedIndex::remove_document
Bm25RemoveDocument(index, doc_id) ==
    IF doc_id \notin DOMAIN index.doc_meta THEN index
    ELSE LET kept == [t \in DOMAIN index.postings |->
                         SelectSeq(index.postings[t], LAMBDA e : e[1] # doc_id)]
             live == {t \in DOMAIN kept : kept[t] # <<>>}
         IN  [postings |-> [t \in live |-> kept[t]],
              doc_meta |-> [d \in DOMAIN index.doc_meta \ {doc_id} |-> index.doc_meta[d]],
              doc_count |-> IF index.doc_count > 0 THEN index.doc_count - 1 ELSE 0,
              total_tokens |->
                  IF index.total_tokens > index.doc_meta[doc_id]
                  THEN index.total_tokens - index.doc_meta[doc_id] ELSE 0]

\* 1000 * ln((N - n + 0.5) / (n + 0.5) + 1), rounded, for 1 <= n <= N <= 7
IdfMilli(N, n) ==
    << <<288>>,
       <<693, 182>>,
       <<981, 470, 134>>,
       <<1204, 693, 357, 105>>,
       <<1386, 875, 539, 288, 87>>,
       <<1540, 1030, 693, 442, 241, 74>>,
       <<1674, 1163, 827, 575, 375, 208, 65>> >>[N][n]

\* idf * tf_component with k1 = 1.2, b = 0.75 and avg = total / count, in
\* units of 1e-5:  tf (k1 + 1) / (tf + k1 (1 - b + b len / avg))
\*               = 22 tf total / (10 tf total + 3 total + 9 len count)
TermScore(N, n, tf, len, total, count) ==
    (IdfMilli(N, n) * 22 * tf * total * 100)
        \div (10 * tf * total + 3 * total + 9 * len * count)

\* the tf of doc_id in a posting list, 0 when it is not listed
PostingTf(plist, doc_id) ==
    IF \E i \in 1..Len(plist) : plist[i][1] = doc_id
    THEN plist[CHOOSE i \in 1..Len(plist) : plist[i][1] = doc_id][2]
    ELSE 0

RECURSIVE Bm25Score(_, _, _)
\* the score InvertedIndex::search accumulates for doc_id over query_tokens
Bm25Score(index, query_tokens, doc_id) ==
    IF query_tokens = <<>> THEN 0
    ELSE LET t == Head(query_tokens)
             tf == IF t \in DOMAIN index.postings
                   THEN PostingTf(index.postings[t], doc_id) ELSE 0
             part == IF tf > 0 /\ doc_id \in DOMAIN index.doc_meta
                     THEN TermScore(index.doc_count, Len(index.postings[t]), tf,
                                    index.doc_meta[doc_id], index.total_tokens,
                                    index.doc_count)
                     ELSE 0
         IN  part + Bm25Score(index, Tail(query_tokens), doc_id)

\* the keys of the scores map of InvertedIndex::search
Bm25Scored(index, query_tokens) ==
    {d \in DOMAIN index.doc_meta :
        \E i \in 1..Len(query_tokens) :
            /\ query_tokens[i] \in DOMAIN index.postings
            /\ PostingTf(index.postings[query_tokens[i]], d) > 0}

\* The orders a stable sort by descending score can leave the entries of a
\* HashMap in: the map's iteration order is arbitrary, so entries of equal
\* score come out in any order.
OrdersByScoreDesc(ids, score(_)) ==
    {p \in Perms(ids) : \A i \in 1..Len(p) - 1 : score(p[i]) >= score(p[i + 1])}

\* InvertedIndex::search / bm25_search: the result lists it can return, each
\* a sequence of [doc_id, score]
bm25_search(index, query, top_k) ==
    LET query_tokens == tokenize_for_bm25(query)
    IN  IF index.doc_count = 0 \/ query_tokens = <<>> THEN {<<>>}
        ELSE LET sc(d) == Bm25Score(index, query_tokens, d)
             IN  {Take([i \in 1..Len(p) |-> [doc_id |-> p[i], score |-> sc(p[i])]], top_k) :
                     p \in OrdersByScoreDesc(Bm25Scored(index, query_tokens), sc)}

-----------------------------------------------------------------------------
(* The HNSW index and the recent-insert buffer.                            *)

\* build_hnsw_index: an empty points list leaves the index as it is
build_hnsw_index(index, points) == IF points = <<>> THEN index ELSE Some(points)

is_hnsw_index_loaded(index) == IsSome(index)

\* Hnsw::search on a graph small enough to be searched exhaustively: the
\* top_k points nearest to the query by cosine distance, ascending; points
\* at equal distance in any order. Each result is the id of a point.
HnswNeighbours(points, query_embedding, top_k) ==
    {Take([i \in 1..Len(p) |-> points[p[i]].id], top_k) :
        p \in {q \in Perms(1..Len(points)) :
                 \A i \in 1..Len(q) - 1 :
                    ~DistLess(query_embedding, points[q[i + 1]].embedding,
                              points[q[i]].embedding)}}

\* search_hnsw: Err("HNSW index not initialized") when the index is None
search_hnsw(index, query_embedding, top_k) ==
    IF IsSome(index)
    THEN {[ok |-> TRUE, ids |-> r] : r \in HnswNeighbours(index[1], query_embedding, top_k)}
    ELSE {[ok |-> FALSE, ids |-> <<>>]}

\* incremental_add: push to RECENT_BUFFER
incremental_add(buf, doc_id, embedding) ==
    Append(buf, [id |-> doc_id, embedding |-> embedding])

-----------------------------------------------------------------------------
(* The hybrid retriever.                                                   *)

\* slice::sort_by (stable): s ordered by the strict weak order Less, elements
\* that compare Equal kept in their order in s
StableSort(s, Less(_, _)) ==
    LET n == Len(s)
        pos(i) == 1 + Cardinality({j \in 1..n :
                        Less(s[j], s[i]) \/ (~Less(s[i], s[j]) /\ j < i)})
    IN  [k \in 1..n |-> s[CHOOSE i \in 1..n : pos(i) = k]]

\* RrfConfig::default()
RrfK == 60
DefaultWeightTenths == 5
DefaultConfig ==
    [k |-> RrfK, vector_weight |-> DefaultWeightTenths, bm25_weight |-> DefaultWeightTenths]

FilterMultiplier == 4
NoFilterMultiplier == 2

CandidateK(top_k, filter) ==
    top_k * (IF IsSome(filter) THEN FilterMultiplier ELSE NoFilterMultiplier)

\* the filter names a non-empty source_ids list (the exact-scan condition)
HasSourceFilter(filter) ==
    IsSome(filter) /\ IsSome(filter[1].source_ids) /\ filter[1].source_ids[1] # <<>>

\* a scan that reads every chunk row, whatever its source
ScopedRowsAll(chunkTbl, sids) == chunkTbl

\* SELECT c.id, c.embedding, c.content FROM chunks c WHERE c.source_id IN (sids)
ScopedRows(chunkTbl, sids) == SelectSeq(chunkTbl, LAMBDA r : r.source_id \in Range(sids))

\* vector_results of the exact scan: the scoped rows whose embedding has the
\* query's dimension, by ascending cosine distance (stable), cut to candidate_k
ScopedVectorResults(rows, query_embedding, candidate_k) ==
    LET same == SelectSeq(rows, LAMBDA r :
                    Len(BlobToEmbedding(r.embedding)) = Len(query_embedding))
        less(a, b) == DistLess(query_embedding, BlobToEmbedding(a.embedding),
                               BlobToEmbedding(b.embedding))
        sorted == StableSort(same, less)
    IN  Take([i \in 1..Len(sorted) |-> sorted[i].id], candidate_k)

\* the rows the scoped BM25 counts: those with at least one token
ScopedDocs(rows) == SelectSeq(rows, LAMBDA r : Len(tokenize_for_bm25(r.content)) > 0)

RECURSIVE SumLen(_)
SumLen(rows) ==
    IF rows = <<>> THEN 0
    ELSE Len(tokenize_for_bm25(Head(rows).content)) + SumLen(Tail(rows))

\* scoped_doc_freqs[term]: the scoped docs that contain the term
ScopedDf(sdocs, term) ==
    Cardinality({i \in 1..Len(sdocs) : CountOf(tokenize_for_bm25(sdocs[i].content), term) > 0})

RECURSIVE ScopedScore(_, _, _)
\* the score the exact scan gives one scoped doc over the query tokens
ScopedScore(sdocs, query_tokens, row) ==
    IF query_tokens = <<>> THEN 0
    ELSE LET t == Head(query_tokens)
             toks == tokenize_for_bm25(row.content)
             tf == CountOf(toks, t)
             part == IF tf > 0
                     THEN TermScore(Len(sdocs), ScopedDf(sdocs, t), tf, Len(toks),
                                    SumLen(sdocs), Len(sdocs))
                     ELSE 0
         IN  part + ScopedScore(sdocs, Tail(query_tokens), row)

\* bm25_results of the exact scan: the possible lists of ids. The global
\* results are cleared first; the scoped scores replace them only when the
\* query has tokens and some scoped row has tokens.
ScopedBm25Results(rows, query_text, candidate_k) ==
    LET query_tokens == tokenize_for_bm25(query_text)
        sdocs == ScopedDocs(rows)
    IN  IF query_tokens = <<>> \/ sdocs = <<>> THEN {<<>>}
        ELSE LET sc(id) == ScopedScore(sdocs, query_tokens, RowById(sdocs, id))
                 scored == {id \in RowIds(sdocs) : sc(id) > 0}
             IN  {Take(p, candidate_k) : p \in OrdersByScoreDesc(scored, sc)}

\* the WHERE clause of the post-filter query on one chunk row
PostFilterKeeps(srcTbl, f, row) ==
    /\ (IsSome(f.source_ids) /\ f.source_ids[1] # <<>>
            => row.source_id \in Range(f.source_ids[1]))
    /\ (IsSome(f.metadata_like)
            => LET m == JoinedMetadata(srcTbl, row.source_id)
               IN  IsSome(m) /\ Like(m[1], f.metadata_like[1]))

\* valid_ids of the post-filter: the candidate ids that are chunk rows the
\* WHERE clause keeps
ValidIds(srcTbl, chunkTbl, f, ids) ==
    {id \in ids \cap RowIds(chunkTbl) : PostFilterKeeps(srcTbl, f, RowById(chunkTbl, id))}

\* vector_ranks / bm25_ranks: 1-based position, the last occurrence of an id
\* winning (HashMap::insert overwrites), 0 standing for None
RankIn(list, id) ==
    IF \E i \in 1..Len(list) : list[i] = id
    THEN CHOOSE i \in 1..Len(list) : list[i] = id /\ \A j \in i + 1..Len(list) : list[j] # id
    ELSE 0

\* combined_score as the exact rational num / den, weights in tenths:
\*   vector_weight / (k + vec_rank) + bm25_weight / (k + bm25_rank)
CombinedScore(config, vec_rank, bm25_rank) ==
    LET a == IF vec_rank > 0 THEN config.k + vec_rank ELSE 1
        b == IF bm25_rank > 0 THEN config.k + bm25_rank ELSE 1
    IN  [num |-> (IF vec_rank > 0 THEN config.vector_weight * b ELSE 0)
                 + (IF bm25_rank > 0 THEN config.bm25_weight * a ELSE 0),
         den |-> 10 * a * b]

ScoreLess(x, y) == x.num * y.den < y.num * x.den

\* step 3 of search_hybrid: the (doc_id, score, vec_rank, bm25_rank) tuples,
\* ids ascending, then stable-sorted by score descending, cut to top_k
RrfRanking(vector_results, bm25_results, config, top_k) ==
    LET all_doc_ids == SortedInts(Range(vector_results) \cup Range(bm25_results))
        rrf_scores == [i \in 1..Len(all_doc_ids) |->
            LET vr == RankIn(vector_results, all_doc_ids[i])
                br == RankIn(bm25_results, all_doc_ids[i])
            IN  [doc_id |-> all_doc_ids[i], score |-> CombinedScore(config, vr, br),
                 vector_rank |-> vr, bm25_rank |-> br]]
        desc(x, y) == ScoreLess(y.score, x.score)
    IN  Take(StableSort(rrf_scores, desc), top_k)

\* a content_map that reads the chunks table first and the docs table only
\* for the ids still missing
ContentMapChunksFirst(srcTbl, chunkTbl, docTbl, filter, ids) ==
    LET from_chunks == ids \cap RowIds(chunkTbl)
        from_docs == IF IsSome(filter) THEN {} ELSE (ids \ from_chunks) \cap RowIds(docTbl)
    IN  [id \in from_docs \cup from_chunks |->
            IF id \in from_docs
            THEN [content |-> RowById(docTbl, id).content, source_id |-> id,
                  metadata |-> None, chunk_index |-> 0]
            ELSE LET c == RowById(chunkTbl, id)
                 IN  [content |-> c.content, source_id |-> c.source_id,
                      metadata |-> JoinedMetadata(srcTbl, c.source_id),
                      chunk_index |-> c.chunk_index]]

\* step 4 of search_hybrid: content_map. Without a filter the docs table is
\* read first (source_id = id, metadata None, chunk_index 0); the chunks
\* table is read only for the ids still missing.
ContentMap(srcTbl, chunkTbl, docTbl, filter, ids) ==
    LET from_docs == IF IsSome(filter) THEN {} ELSE ids \cap RowIds(docTbl)
        missing == ids \ from_docs
        from_chunks == missing \cap RowIds(chunkTbl)
    IN  [id \in from_docs \cup from_chunks |->
            IF id \in from_docs
            THEN [content |-> RowById(docTbl, id).content, source_id |-> id,
                  metadata |-> None, chunk_index |-> 0]
            ELSE LET c == RowById(chunkTbl, id)
                 IN  [content |-> c.content, source_id |-> c.source_id,
                      metadata |-> JoinedMetadata(srcTbl, c.source_id),
                      chunk_index |-> c.chunk_index]]

\* a results vector that keeps the ranked tuples whose content was not found
HydrateKeepsMissing(srcTbl, chunkTbl, docTbl, filter, rrf_scores) ==
    LET content_map == ContentMap(srcTbl, chunkTbl, docTbl, filter,
                                  {rrf_scores[i].doc_id : i \in 1..Len(rrf_scores)})
        at(id) == IF id \in DOMAIN content_map THEN content_map[id]
                  ELSE [content |-> <<>>, source_id |-> 0, metadata |-> None,
                        chunk_index |-> 0]
    IN  [i \in 1..Len(rrf_scores) |->
            [doc_id |-> rrf_scores[i].doc_id,
             content |-> at(rrf_scores[i].doc_id).content,
             score |-> rrf_scores[i].score,
             vector_rank |-> rrf_scores[i].vector_rank,
             bm25_rank |-> rrf_scores[i].bm25_rank,
             source_id |-> at(rrf_scores[i].doc_id).source_id,
             metadata |-> at(rrf_scores[i].doc_id).metadata,
             chunk_index |-> at(rrf_scores[i].doc_id).chunk_index]]

\* the results vector: the ranked tuples whose content was found, in order
Hydrate(srcTbl, chunkTbl, docTbl, filter, rrf_scores) ==
    LET content_map == ContentMap(srcTbl, chunkTbl, docTbl, filter,
                                  {rrf_scores[i].doc_id : i \in 1..Len(rrf_scores)})
        found == SelectSeq(rrf_scores, LAMBDA t : t.doc_id \in DOMAIN content_map)
    IN  [i \in 1..Len(found) |->
            [doc_id |-> found[i].doc_id,
             content |-> content_map[found[i].doc_id].content,
             score |-> found[i].score,
             vector_rank |-> found[i].vector_rank,
             bm25_rank |-> found[i].bm25_rank,
             source_id |-> content_map[found[i].doc_id].source_id,
             metadata |-> content_map[found[i].doc_id].metadata,
             chunk_index |-> content_map[found[i].doc_id].chunk_index]]

\* Step 2 of search_hybrid on the joined worker results (lists of ids): the
\* candidate lists [vec, bm] the ranking can start from
CandidateLists(srcTbl, chunkTbl, vec_res, bm25_res, a) ==
    LET candidate_k == CandidateK(a.top_k, a.filter)
    IN  IF HasSourceFilter(a.filter)
        THEN LET rows == ScopedRows(chunkTbl, a.filter[1].source_ids[1])
             IN  {[vec |-> ScopedVectorResults(rows, a.query_embedding, candidate_k),
                   bm |-> b] :
                    b \in ScopedBm25Results(rows, a.query_text, candidate_k)}
        ELSE IF IsSome(a.filter) /\ Range(vec_res) \cup Range(bm25_res) # {}
        THEN LET valid_ids == ValidIds(srcTbl, chunkTbl, a.filter[1],
                                       Range(vec_res) \cup Range(bm25_res))
             IN  {[vec |-> Filter(vec_res, valid_ids),
                   bm |-> Filter(bm25_res, valid_ids)]}
        ELSE {[vec |-> vec_res, bm |-> bm25_res]}

\* Steps 2-4 of search_hybrid on the joined worker results (lists of ids):
\* the result lists the call can return.
HybridAfterJoin(srcTbl, chunkTbl, docTbl, vec_res, bm25_res, a) ==
    {Hydrate(srcTbl, chunkTbl, docTbl, a.filter,
             RrfRanking(l.vec, l.bm, a.config, a.top_k)) :
        l \in CandidateLists(srcTbl, chunkTbl, vec_res, bm25_res, a)}

\* Steps 2-4 when the hydration meets a database fault:
\*   "connection"   get_connection() fails: map_err(DatabaseError)?
\*   "docs_query"   preparing or running the docs query fails: if let Ok(..)
\*   "chunks_query" preparing or running the chunks query fails: if let Ok(..)
\* A failed query leaves content_map without the rows it would have read.
\* The outcomes are [ok, results, hydration_error]; hydration_error tells
\* whether a content query that was executed failed.
HybridAfterJoinFault(srcTbl, chunkTbl, docTbl, vec_res, bm25_res, a, fault) ==
    {LET ranked == RrfRanking(l.vec, l.bm, a.config, a.top_k)
         ids == {ranked[i].doc_id : i \in 1..Len(ranked)}
         docs_read == IF fault = "docs_query" THEN <<>> ELSE docTbl
         chunks_read == IF fault = "chunks_query" THEN <<>> ELSE chunkTbl
         missing == ids \ (IF IsSome(a.filter) THEN {} ELSE RowIds(docs_read))
     IN  IF ranked = <<>>
         THEN [ok |-> TRUE, results |-> <<>>, hydration_error |-> FALSE]
         ELSE IF fault = "connection"
         THEN [ok |-> FALSE, results |-> <<>>, hydration_error |-> FALSE]
         ELSE [ok |-> TRUE,
               results |-> Hydrate(srcTbl, chunks_read, docs_read, a.filter, ranked),
               hydration_error |->
                   \/ fault = "docs_query" /\ ~IsSome(a.filter)
                   \/ fault = "chunks_query" /\ missing # {}] :
        l \in CandidateLists(srcTbl, chunkTbl, vec_res, bm25_res, a)}

\* a scan that decodes with  blob.chunks(4) .. try_into().unwrap()  panics
\* on the first row whose blob has a short last chunk
ScanPanics(rows) == \E i \in 1..Len(rows) : BlobDecodePanics(rows[i].embedding)

\* whether the exact scan of search_hybrid panics: it runs when the filter
\* names source ids, over the rows of those sources
ExactScanPanics(chunkTbl, a) ==
    HasSourceFilter(a.filter) /\ ScanPanics(ScopedRows(chunkTbl, a.filter[1].source_ids[1]))

\* the vector worker of search_hybrid run without interruption: an unloaded
\* index gives no candidates, an Err from search_hnsw is replaced by vec![]
VectorWorker(index, query_embedding, candidate_k) ==
    IF is_hnsw_index_loaded(index)
    THEN {IF r.ok THEN r.ids ELSE <<>> : r \in search_hnsw(index, query_embedding, candidate_k)}
    ELSE {<<>>}

\* the BM25 worker of search_hybrid: the ids of bm25_search's results
Bm25Worker(index, query_text, candidate_k) ==
    {[i \in 1..Len(r) |-> r[i].doc_id] : r \in bm25_search(index, query_text, candidate_k)}

\* search_hybrid with both workers run to completion before anything else
\* happens: the result lists it can return
search_hybrid(srcTbl, chunkTbl, docTbl, bmIndex, hnswIndex, a) ==
    UNION {HybridAfterJoin(srcTbl, chunkTbl, docTbl, v, b, a) :
              <<v, b>> \in VectorWorker(hnswIndex, a.query_embedding,
                                        CandidateK(a.top_k, a.filter))
                           \X Bm25Worker(bmIndex, a.query_text,
                                         CandidateK(a.top_k, a.filter))}

-----------------------------------------------------------------------------
(* search_chunks, add_document and the rebuilds.                           *)

\* the (id, embedding) points rebuild_chunk_hnsw_index reads from a table;
\* chunks_exact(4) drops a short tail of the blob
PointsOf(tbl) ==
    [i \in 1..Len(tbl) |-> [id |-> tbl[i].id, embedding |-> BlobToEmbedding(tbl[i].embedding)]]

\* rebuild_chunk_hnsw_index / rebuild_hnsw_index_internal: build from the
\* rows of the table when there are any
rebuild_hnsw_from(index, tbl) == IF tbl = <<>> THEN index ELSE build_hnsw_index(index, PointsOf(tbl))

ChunkResult(srcTbl, row) ==
    [chunk_id |-> row.id, source_id |-> row.source_id, chunk_index |-> row.chunk_index,
     content |-> row.content, metadata |-> JoinedMetadata(srcTbl, row.source_id)]

\* search_chunks_linear: every chunk of the query's dimension, by descending
\* similarity (stable over rowid order), the first top_k
search_chunks_linear(srcTbl, chunkTbl, query_embedding, top_k) ==
    LET same == SelectSeq(chunkTbl, LAMBDA r :
                    Len(BlobToEmbedding(r.embedding)) = Len(query_embedding))
        desc(a, b) == SimLess(query_embedding, BlobToEmbedding(b.embedding),
                              BlobToEmbedding(a.embedding))
        sorted == Take(StableSort(same, desc), top_k)
    IN  [i \in 1..Len(sorted) |-> ChunkResult(srcTbl, sorted[i])]

\* search_chunks: the index after the call (it is rebuilt from the chunks
\* table when not loaded) and the result lists the call can return
search_chunks(srcTbl, chunkTbl, index, query_embedding, top_k) ==
    LET index1 == IF is_hnsw_index_loaded(index) THEN index
                  ELSE rebuild_hnsw_from(index, chunkTbl)
    IN  [index |-> index1,
         results |->
            IF ~is_hnsw_index_loaded(index1)
            THEN {search_chunks_linear(srcTbl, chunkTbl, query_embedding, top_k)}
            ELSE {LET found == SelectSeq(r.ids, LAMBDA id : id \in RowIds(chunkTbl))
                  IN  [i \in 1..Len(found) |-> ChunkResult(srcTbl, RowById(chunkTbl, found[i]))] :
                    r \in search_hnsw(index1, query_embedding, top_k)}]

\* SELECT id FROM docs WHERE content_hash = ?
FindDocByHash(tbl, h) == \E i \in 1..Len(tbl) : tbl[i].content_hash = h

\* add_document: the docs table, BM25 index and buffer after the call
add_document(docTbl, index, buf, content, embedding) ==
    IF embedding = <<>>
    THEN [docs |-> docTbl, bm25 |-> index, buffer |-> buf,
          success |-> FALSE, is_duplicate |-> FALSE]
    ELSE IF FindDocByHash(docTbl, hash_content(content))
    THEN [docs |-> docTbl, bm25 |-> index, buffer |-> buf,
          success |-> TRUE, is_duplicate |-> TRUE]
    ELSE LET doc_id == NextRowId(docTbl)
         IN  [docs |-> Append(docTbl, [id |-> doc_id, content |-> content,
                                       content_hash |-> hash_content(content),
                                       embedding |-> EmbeddingToBlob(embedding)]),
              bm25 |-> Bm25AddDocument(index, doc_id, content),
              buffer |-> incremental_add(buf, doc_id, embedding),
              success |-> TRUE, is_duplicate |-> FALSE]

-----------------------------------------------------------------------------
(* The state machine: one action per public operation.                     *)

Idle == [op |-> "idle"]

Init ==
    /\ foreign_keys = FALSE
    /\ assigned = None
    /\ DB_POOL = <<>>
    /\ sources = <<>>
    /\ chunks = <<>>
    /\ docs = <<>>
    /\ bm25 = EmptyIndex
    /\ hnsw = None
    /\ buffer = <<>>
    /\ resp = Idle
    /\ pc = "idle"
    /\ seen = Idle

AddSource(content, metadata) ==
    LET r == add_source(sources, content, metadata)
    IN  /\ Len(r.table) <= MaxSources
        /\ r.source_id <= MaxSourceId
        /\ sources' = r.table
        /\ resp' = [op |-> "add_source", content |-> content,
                    source_id |-> r.source_id, is_duplicate |-> r.is_duplicate]
        /\ assigned' = Record(assigned, "sources", r.table)
        /\ UNCHANGED <<foreign_keys, DB_POOL, chunks, docs, bm25, hnsw, buffer, pc, seen>>

\* With foreign keys enforced the first INSERT for a source_id that is no
\* row of sources fails, like a tx.execute that returns Err.
AddChunks(source_id, batch, fail_at) ==
    LET fk_fails == foreign_keys /\ batch # <<>> /\ source_id \notin RowIds(sources)
        r == add_chunks(chunks, source_id, batch, IF fk_fails THEN 1 ELSE fail_at)
    IN  /\ Len(chunks) + Len(batch) <= MaxChunks
        /\ NextRowId(chunks) + Len(batch) - 1 <= MaxChunkId
        /\ chunks' = r.table
        /\ resp' = [op |-> "add_chunks", source_id |-> source_id, batch |-> batch,
                    fail_at |-> fail_at, ok |-> r.ok, value |-> r.value]
        /\ assigned' = Record(assigned, "chunks", r.table)
        /\ UNCHANGED <<foreign_keys, DB_POOL, sources, docs, bm25, hnsw, buffer, pc, seen>>

DeleteSource(source_id) ==
    /\ chunks' = DeleteChunksOf(chunks, source_id)
    /\ sources' = DeleteRow(sources, source_id)
    /\ resp' = [op |-> "delete_source", source_id |-> source_id]
    /\ UNCHANGED <<foreign_keys, assigned, DB_POOL, docs, bm25, hnsw, buffer, pc, seen>>

AddDocument(content, embedding) ==
    LET r == add_document(docs, bm25, buffer, content, embedding)
    IN  /\ Len(r.docs) <= MaxDocs
        /\ docs' = r.docs
        /\ bm25' = r.bm25
        /\ buffer' = r.buffer
        /\ resp' = [op |-> "add_document", content |-> content,
                    success |-> r.success, is_duplicate |-> r.is_duplicate]
        /\ assigned' = Record(assigned, "docs", r.docs)
        /\ UNCHANGED <<foreign_keys, DB_POOL, sources, chunks, hnsw, pc, seen>>

\* bm25_add_document called by the host for a stored chunk
Bm25AddChunk(id) ==
    /\ id \in RowIds(chunks)
    /\ bm25' = Bm25AddDocument(bm25, id, RowById(chunks, id).content)
    /\ resp' = [op |-> "bm25_add_document", doc_id |-> id]
    /\ UNCHANGED <<foreign_keys, assigned, DB_POOL, sources, chunks, docs, hnsw, buffer, pc, seen>>

\* incremental_add called by the host for a stored chunk
IncrementalAddChunk(id) ==
    /\ id \in RowIds(chunks)
    /\ Len(buffer) < MaxChunks + MaxDocs
    /\ buffer' = incremental_add(buffer, id, BlobToEmbedding(RowById(chunks, id).embedding))
    /\ resp' = [op |-> "incremental_add", doc_id |-> id]
    /\ UNCHANGED <<foreign_keys, assigned, DB_POOL, sources, chunks, docs, bm25, hnsw, pc, seen>>

RebuildChunkHnswIndex ==
    /\ hnsw' = rebuild_hnsw_from(hnsw, chunks)
    /\ resp' = [op |-> "rebuild_chunk_hnsw_index"]
    /\ UNCHANGED <<foreign_keys, assigned, DB_POOL, sources, chunks, docs, bm25, buffer, pc, seen>>

\* rebuild_hnsw_index of the simple path: from the docs table
RebuildHnswIndex ==
    /\ hnsw' = rebuild_hnsw_from(hnsw, docs)
    /\ resp' = [op |-> "rebuild_hnsw_index"]
    /\ UNCHANGED <<foreign_keys, assigned, DB_POOL, sources, chunks, docs, bm25, buffer, pc, seen>>

ClearHnswIndex ==
    /\ hnsw' = None
    /\ resp' = [op |-> "clear_hnsw_index"]
    /\ UNCHANGED <<foreign_keys, assigned, DB_POOL, sources, chunks, docs, bm25, buffer, pc, seen>>

SearchHybrid(a) ==
    /\ IF ExactScanPanics(chunks, a)
       THEN resp' = [op |-> "search_hybrid", args |-> a, ok |-> FALSE,
                     panicked |-> TRUE, results |-> <<>>]
       ELSE \E r \in search_hybrid(sources, chunks, docs, bm25, hnsw, a) :
               resp' = [op |-> "search_hybrid", args |-> a, ok |-> TRUE,
                        panicked |-> FALSE, results |-> r]
    /\ UNCHANGED <<foreign_keys, assigned, DB_POOL, sources, chunks, docs, bm25, hnsw, buffer, pc, seen>>

SearchChunks(query_embedding, top_k) ==
    LET out == search_chunks(sources, chunks, hnsw, query_embedding, top_k)
    IN  /\ hnsw' = out.index
        /\ \E r \in out.results :
              resp' = [op |-> "search_chunks", query_embedding |-> query_embedding,
                       top_k |-> top_k, results |-> r]
        /\ UNCHANGED <<foreign_keys, assigned, DB_POOL, sources, chunks, docs, bm25, buffer, pc, seen>>

\* the caller takes the returned value; its next call can start
Return ==
    /\ resp # Idle
    /\ resp' = Idle
    /\ UNCHANGED <<foreign_keys, assigned, DB_POOL, sources, chunks, docs, bm25, hnsw, buffer, pc, seen>>

-----------------------------------------------------------------------------
(* Inputs of the calls.                                                    *)

TxtAppleC == <<"a", "p", " ", "c">>
TxtBanana == <<"b", "a">>
TxtC == <<"c">>
TxtAp == <<"A", "p">>

SourceContents == {<<"s", "1">>, <<"s", "2">>}
Metadatas == {None, Some(<<"k">>)}

ChunkInputs ==
    {[content |-> TxtAppleC, chunk_index |-> 0, embedding |-> <<1, 0>>],
     [content |-> TxtBanana, chunk_index |-> 1, embedding |-> <<0, 1>>]}

Batches == UNION {[1..n -> ChunkInputs] : n \in 1..MaxBatch}

-----------------------------------------------------------------------------
(* The store alone: sources and chunks written and deleted by a caller     *)
(* whose calls follow one another.                                         *)

NextStore ==
    \/ \E c \in SourceContents, m \in Metadatas : AddSource(c, m)
    \/ \E sid \in 1..MaxSourceId, b \in Batches :
          \E f \in 0..Len(b) + 1 : AddChunks(sid, b, f)
    \/ \E sid \in 1..MaxSourceId : DeleteSource(sid)

SpecStore == Init /\ [][NextStore]_vars

\* the rows a successful add_chunks stores for its batch, on top of tbl
RECURSIVE StoredBatch(_, _, _)
StoredBatch(tbl, source_id, batch) ==
    IF batch = <<>> THEN tbl
    ELSE StoredBatch(InsertChunk(tbl, source_id, Head(batch)), source_id, Tail(batch))

\* C1: add_chunks is all-or-nothing. A call that returns an error leaves the
\* chunks table exactly as it was before the call; a call that returns Ok
\* has appended one row per chunk of the batch, in order, and nothing else.
C1_AddChunksAllOrNothing ==
    [][resp'.op = "add_chunks" =>
          /\ resp'.ok = (resp'.fail_at = 0)
          /\ IF resp'.ok
             THEN /\ chunks' = StoredBatch(chunks, resp'.source_id, resp'.batch)
                  /\ Len(chunks') = Len(chunks) + Len(resp'.batch)
                  /\ resp'.value = Len(resp'.batch)
             ELSE chunks' = chunks]_vars

\* a two-chunk batch whose second insert failed, on a table that held rows
C1_Witness ==
    /\ resp.op = "add_chunks"
    /\ ~resp.ok
    /\ Len(resp.batch) = 2
    /\ resp.fail_at = 2
    /\ chunks # <<>>

\* C2: when add_chunks has returned Ok, every chunk of the batch (the rows
\* it appended) is in the BM25 index and in the recent-insert buffer.
C2_AddChunksIndexesBatch ==
    (resp.op = "add_chunks" /\ resp.ok) =>
        \A i \in Len(chunks) - resp.value + 1..Len(chunks) :
            /\ chunks[i].id \in DOMAIN bm25.doc_meta
            /\ \E j \in 1..Len(buffer) : buffer[j].id = chunks[i].id

\* C6: add_source is idempotent on content. A call that follows a call with
\* the same content returns the same id with is_duplicate = true, leaves the
\* table unchanged, and the table holds one row with that content_hash.
C6_AddSourceIdempotent ==
    [][(resp.op = "add_source" /\ resp'.op = "add_source"
            /\ resp'.content = resp.content) =>
          /\ resp'.source_id = resp.source_id
          /\ resp'.is_duplicate
          /\ sources' = sources
          /\ Cardinality({i \in 1..Len(sources') :
                 sources'[i].content_hash = hash_content(resp'.content)}) = 1]_vars

\* a duplicate reported for the second of two stored sources
C6_Witness ==
    /\ resp.op = "add_source"
    /\ resp.is_duplicate
    /\ resp.source_id = 2
    /\ Len(sources) = 2

-----------------------------------------------------------------------------
(* The filtered retriever: sources with and without metadata, chunks added *)
(* one at a time, the host feeding the BM25 index and rebuilding the HNSW  *)
(* index when it chooses, and search_hybrid calls with and without filter. *)

SourceRows ==
    {[content |-> <<"s", "1">>, metadata |-> Some(<<"k">>)],
     [content |-> <<"s", "2">>, metadata |-> None]}

SearchFilter(source_ids, metadata_like) ==
    Some([source_ids |-> source_ids, metadata_like |-> metadata_like])

Filters ==
    {None,
     SearchFilter(Some(<<1>>), None),
     SearchFilter(Some(<<2>>), Some(<<"%", "k">>)),
     SearchFilter(None, Some(<<"%", "k">>))}

FilterArgs ==
    {[query_text |-> q, query_embedding |-> <<1, 0>>, top_k |-> k,
      config |-> DefaultConfig, filter |-> f] :
        q \in {TxtC, TxtAp}, k \in 1..MaxTopK, f \in Filters}

NextFilter ==
    \/ resp = Idle /\ \E s \in SourceRows : AddSource(s.content, s.metadata)
    \/ resp = Idle /\ Len(chunks) < MaxSearchChunks
          /\ \E sid \in 1..MaxSources, c \in ChunkInputs : AddChunks(sid, <<c>>, 0)
    \/ resp = Idle /\ \E id \in 1..MaxChunkId : Bm25AddChunk(id)
    \/ resp = Idle /\ RebuildChunkHnswIndex
    \/ resp = Idle /\ \E a \in FilterArgs : SearchHybrid(a)
    \/ Return

SpecFilter == Init /\ [][NextFilter]_vars

\* C4: a search_hybrid call whose filter names a non-empty source_ids list
\* returns only results whose source_id is in that list.
C4_SourceFilterScopesResults ==
    (resp.op = "search_hybrid" /\ HasSourceFilter(resp.args.filter)) =>
        \A i \in 1..Len(resp.results) :
            resp.results[i].source_id \in Range(resp.args.filter[1].source_ids[1])

\* a filtered call that returned a result while the global BM25 index and
\* the HNSW index both held a chunk of a source outside the list
C4_Witness ==
    /\ resp.op = "search_hybrid"
    /\ HasSourceFilter(resp.args.filter)
    /\ resp.results # <<>>
    /\ \E c \in Range(chunks) :
          /\ c.source_id \notin Range(resp.args.filter[1].source_ids[1])
          /\ c.id \in DOMAIN bm25.doc_meta
          /\ IsSome(hnsw)
          /\ \E j \in 1..Len(hnsw[1]) : hnsw[1][j].id = c.id

\* C5: a search_hybrid call whose filter sets metadata_like = p returns only
\* results of sources whose metadata matches p, with or without source_ids.
C5_MetadataLikeFiltersResults ==
    (resp.op = "search_hybrid" /\ IsSome(resp.args.filter)
        /\ IsSome(resp.args.filter[1].metadata_like)) =>
        \A i \in 1..Len(resp.results) :
            LET m == JoinedMetadata(sources, resp.results[i].source_id)
            IN  IsSome(m) /\ Like(m[1], resp.args.filter[1].metadata_like[1])

\* C8: search_hybrid returns at most top_k results, no id twice, by combined
\* score descending, results of equal combined score by ascending id.
C8_ResultsRankedAndCut ==
    resp.op = "search_hybrid" =>
        /\ Len(resp.results) <= resp.args.top_k
        /\ \A i, j \in 1..Len(resp.results) :
              i < j =>
                /\ resp.results[i].doc_id # resp.results[j].doc_id
                /\ ~ScoreLess(resp.results[i].score, resp.results[j].score)
                /\ (~ScoreLess(resp.results[j].score, resp.results[i].score)
                        => resp.results[i].doc_id < resp.results[j].doc_id)

\* two results of equal combined score, one ranked by the vector side only
\* and one by the BM25 side only
C8_Witness ==
    /\ resp.op = "search_hybrid"
    /\ Len(resp.results) = 2
    /\ ~ScoreLess(resp.results[1].score, resp.results[2].score)
    /\ ~ScoreLess(resp.results[2].score, resp.results[1].score)
    /\ resp.results[1].vector_rank # resp.results[2].vector_rank

\* C9: with a non-empty source filter, a query text that contains a word of
\* some scoped chunk gets at least one result with bm25_rank > 0, and a
\* chunk outside the scope never gets a rank.
C9_ScopedBm25Ranks ==
    (resp.op = "search_hybrid" /\ HasSourceFilter(resp.args.filter)) =>
        LET words(t) == Range(SplitPieces(ToLowercase(t), <<>>)) \ {<<>>}
            scoped == ScopedRows(chunks, resp.args.filter[1].source_ids[1])
        IN  /\ (\E r \in Range(scoped) : words(resp.args.query_text) \cap words(r.content) # {})
                  => \E i \in 1..Len(resp.results) : resp.results[i].bm25_rank > 0
            /\ \A i \in 1..Len(resp.results) :
                  resp.results[i].doc_id \in RowIds(scoped)

-----------------------------------------------------------------------------
(* The unfiltered retriever over both pipelines: legacy documents and      *)
(* chunks share the BM25 index, the HNSW index and the buffer.             *)

DocInputs ==
    {[content |-> TxtBanana, embedding |-> <<1, 0>>],
     [content |-> TxtAppleC, embedding |-> <<0, 1>>],
     [content |-> TxtBanana, embedding |-> <<>>]}

QueryEmbeddings == {<<1, 0>>, <<0, 1>>}

LegacyArgs ==
    {[query_text |-> TxtAp, query_embedding |-> e, top_k |-> k,
      config |-> DefaultConfig, filter |-> None] :
        e \in QueryEmbeddings, k \in 1..MaxTopK}

\* the buffer holds the chunk row: its id with its embedding
InBuffer(buf, row) ==
    \E j \in 1..Len(buf) :
        buf[j] = [id |-> row.id, embedding |-> BlobToEmbedding(row.embedding)]

NextLegacy ==
    \/ resp = Idle /\ Len(chunks) < MaxSearchChunks
          /\ \E c \in ChunkInputs : AddChunks(1, <<c>>, 0)
    \/ resp = Idle /\ \E d \in DocInputs : AddDocument(d.content, d.embedding)
    \/ resp = Idle /\ \E id \in 1..MaxChunkId :
          id \in RowIds(chunks) /\ ~InBuffer(buffer, RowById(chunks, id))
              /\ IncrementalAddChunk(id)
    \/ resp = Idle /\ RebuildChunkHnswIndex
    \/ resp = Idle /\ RebuildHnswIndex
    \/ resp = Idle /\ \E a \in LegacyArgs : SearchHybrid(a)
    \/ resp = Idle /\ \E e \in QueryEmbeddings, k \in 1..MaxTopK : SearchChunks(e, k)
    \/ Return

SpecLegacy == Init /\ [][NextLegacy]_vars

\* the chunk rows stored and buffered but not in the HNSW graph built last,
\* whose embedding is the query's, when the store holds no more rows than
\* top_k
FreshNearest(query_embedding, top_k) ==
    {c \in Range(chunks) :
        /\ InBuffer(buffer, c)
        /\ IsSome(hnsw)
        /\ \A j \in 1..Len(hnsw[1]) : hnsw[1][j].id # c.id
        /\ BlobToEmbedding(c.embedding) = query_embedding
        /\ Len(chunks) + Len(docs) <= top_k}

\* C3: a chunk inserted after the last HNSW build (stored, in the buffer,
\* not in the graph) that is among the nearest to the query is returned by
\* search_hybrid with vector_rank > 0 and is returned by search_chunks.
C3_BufferedChunkReachable ==
    /\ resp.op = "search_hybrid" =>
          \A c \in FreshNearest(resp.args.query_embedding, resp.args.top_k) :
              \E i \in 1..Len(resp.results) :
                  resp.results[i].doc_id = c.id /\ resp.results[i].vector_rank > 0
    /\ resp.op = "search_chunks" =>
          \A c \in FreshNearest(resp.query_embedding, resp.top_k) :
              \E i \in 1..Len(resp.results) : resp.results[i].chunk_id = c.id

\* C10 as the code has it: with no filter, a result id that is in the docs
\* table is hydrated from docs (its content, source_id = id, no metadata,
\* chunk_index 0); an id that is not in docs is hydrated from chunks joined
\* with sources.
C10_HydrationDocsFirst ==
    (resp.op = "search_hybrid" /\ resp.args.filter = None) =>
        \A i \in 1..Len(resp.results) :
            LET r == resp.results[i]
            IN  IF r.doc_id \in RowIds(docs)
                THEN /\ r.content = RowById(docs, r.doc_id).content
                     /\ r.source_id = r.doc_id
                     /\ r.metadata = None
                     /\ r.chunk_index = 0
                ELSE /\ r.doc_id \in RowIds(chunks)
                     /\ r.content = RowById(chunks, r.doc_id).content
                     /\ r.source_id = RowById(chunks, r.doc_id).source_id
                     /\ r.metadata = JoinedMetadata(sources, r.source_id)
                     /\ r.chunk_index = RowById(chunks, r.doc_id).chunk_index

\* a result whose id is a row of both tables, with different contents
C10_Witness ==
    /\ resp.op = "search_hybrid"
    /\ resp.args.filter = None
    /\ \E i \in 1..Len(resp.results) :
          /\ resp.results[i].doc_id \in RowIds(docs) \cap RowIds(chunks)
          /\ RowById(docs, resp.results[i].doc_id).content
                # RowById(chunks, resp.results[i].doc_id).content

\* C10 as stated: with no filter, a result id that is in the chunks table is
\* hydrated from chunks joined with sources; docs supplies the content only
\* for ids that are not in chunks.
C10_HydrationChunksFirst ==
    (resp.op = "search_hybrid" /\ resp.args.filter = None) =>
        \A i \in 1..Len(resp.results) :
            LET r == resp.results[i]
            IN  IF r.doc_id \in RowIds(chunks)
                THEN /\ r.content = RowById(chunks, r.doc_id).content
                     /\ r.source_id = RowById(chunks, r.doc_id).source_id
                     /\ r.metadata = JoinedMetadata(sources, r.source_id)
                     /\ r.chunk_index = RowById(chunks, r.doc_id).chunk_index
                ELSE /\ r.doc_id \in RowIds(docs)
                     /\ r.content = RowById(docs, r.doc_id).content
                     /\ r.source_id = r.doc_id
                     /\ r.metadata = None
                     /\ r.chunk_index = 0

-----------------------------------------------------------------------------
(* search_hybrid step by step, in its two variants, while another thread   *)
(* clears or rebuilds the HNSW index.                                      *)
(*   pooled (rust_builder/rust/src/api/hybrid_search.rs): a vector worker  *)
(*     and a BM25 worker run in a thread scope and are joined;             *)
(*   legacy (rust/src/api/hybrid_search.rs): the calling thread checks the *)
(*     index, searches it, searches BM25, fuses and hydrates.              *)

WorkerArgs ==
    {[query_text |-> TxtAp, query_embedding |-> <<1, 0>>, top_k |-> k,
      config |-> DefaultConfig, filter |-> None] : k \in 1..MaxTopK}

\* both workers are spawned
StartHybrid(a) ==
    /\ pc = "idle"
    /\ pc' = "workers"
    /\ seen' = [variant |-> "pooled", args |-> a, loaded |-> None, vec |-> None,
                bm |-> None, ann_failed |-> FALSE, bm25_failed |-> FALSE]
    /\ UNCHANGED <<foreign_keys, assigned, DB_POOL, sources, chunks, docs, bm25, hnsw, buffer, resp>>

\* vector worker: if is_hnsw_index_loaded() { .. } else { vec![] }
VecCheckLoaded ==
    /\ pc = "workers" /\ seen.loaded = None /\ seen.vec = None
    /\ seen' = IF is_hnsw_index_loaded(hnsw)
               THEN [seen EXCEPT !.loaded = Some(TRUE)]
               ELSE [seen EXCEPT !.loaded = Some(FALSE), !.vec = Some(<<>>)]
    /\ UNCHANGED <<foreign_keys, assigned, DB_POOL, sources, chunks, docs, bm25, hnsw, buffer, resp, pc>>

\* vector worker: search_hnsw(..).unwrap_or_else(|e| vec![])
VecSearch ==
    /\ pc = "workers" /\ seen.loaded = Some(TRUE) /\ seen.vec = None
    /\ \E r \in search_hnsw(hnsw, seen.args.query_embedding,
                            CandidateK(seen.args.top_k, seen.args.filter)) :
          seen' = [seen EXCEPT !.vec = Some(IF r.ok THEN r.ids ELSE <<>>),
                               !.ann_failed = ~r.ok]
    /\ UNCHANGED <<foreign_keys, assigned, DB_POOL, sources, chunks, docs, bm25, hnsw, buffer, resp, pc>>

\* the vector worker panics: handle_vec.join().unwrap_or_else(|e| vec![])
VecPanic ==
    /\ pc = "workers" /\ seen.vec = None
    /\ seen' = [seen EXCEPT !.vec = Some(<<>>), !.ann_failed = TRUE]
    /\ UNCHANGED <<foreign_keys, assigned, DB_POOL, sources, chunks, docs, bm25, hnsw, buffer, resp, pc>>

\* BM25 worker: bm25_search(query_text, candidate_k)
Bm25Run ==
    /\ pc = "workers" /\ seen.bm = None
    /\ \E r \in Bm25Worker(bm25, seen.args.query_text,
                           CandidateK(seen.args.top_k, seen.args.filter)) :
          seen' = [seen EXCEPT !.bm = Some(r)]
    /\ UNCHANGED <<foreign_keys, assigned, DB_POOL, sources, chunks, docs, bm25, hnsw, buffer, resp, pc>>

\* the BM25 worker panics: handle_bm25.join().unwrap_or_else(|e| vec![])
Bm25Panic ==
    /\ pc = "workers" /\ seen.bm = None
    /\ seen' = [seen EXCEPT !.bm = Some(<<>>), !.bm25_failed = TRUE]
    /\ UNCHANGED <<foreign_keys, assigned, DB_POOL, sources, chunks, docs, bm25, hnsw, buffer, resp, pc>>

\* both workers joined: filter, fuse, hydrate and return Ok
JoinHybrid ==
    /\ pc = "workers" /\ IsSome(seen.vec) /\ IsSome(seen.bm)
    /\ \E r \in HybridAfterJoin(sources, chunks, docs, seen.vec[1], seen.bm[1], seen.args) :
          resp' = [op |-> "search_hybrid", args |-> seen.args, ok |-> TRUE, results |-> r]
    /\ pc' = "idle"
    /\ UNCHANGED <<foreign_keys, assigned, DB_POOL, sources, chunks, docs, bm25, hnsw, buffer, seen>>

\* the legacy variant's results: content from docs, else from chunks; a
\* ranked id found in neither is left out
LegacyHydrate(chunkTbl, docTbl, rrf_scores) ==
    LET content(id) == IF id \in RowIds(docTbl) THEN RowById(docTbl, id).content
                       ELSE RowById(chunkTbl, id).content
        found == SelectSeq(rrf_scores, LAMBDA t : t.doc_id \in RowIds(docTbl) \cup RowIds(chunkTbl))
    IN  [i \in 1..Len(found) |->
            [doc_id |-> found[i].doc_id, content |-> content(found[i].doc_id),
             score |-> found[i].score, vector_rank |-> found[i].vector_rank,
             bm25_rank |-> found[i].bm25_rank]]

StartLegacy(a) ==
    /\ pc = "idle"
    /\ pc' = "legacy_check"
    /\ seen' = [variant |-> "legacy", args |-> a, loaded |-> None, vec |-> None,
                bm |-> None, ann_failed |-> FALSE, bm25_failed |-> FALSE]
    /\ UNCHANGED <<foreign_keys, assigned, DB_POOL, sources, chunks, docs, bm25, hnsw, buffer, resp>>

\* legacy: if is_hnsw_index_loaded() { .. } else { vec![] }
LegacyCheckLoaded ==
    /\ pc = "legacy_check"
    /\ IF is_hnsw_index_loaded(hnsw)
       THEN pc' = "legacy_search" /\ seen' = [seen EXCEPT !.loaded = Some(TRUE)]
       ELSE pc' = "legacy_bm25"
            /\ seen' = [seen EXCEPT !.loaded = Some(FALSE), !.vec = Some(<<>>)]
    /\ UNCHANGED <<foreign_keys, assigned, DB_POOL, sources, chunks, docs, bm25, hnsw, buffer, resp>>

\* legacy: search_hnsw(query_embedding, candidate_k)?  -- an Err leaves the
\* function as its result
LegacySearchHnsw ==
    /\ pc = "legacy_search"
    /\ \E r \in search_hnsw(hnsw, seen.args.query_embedding,
                            seen.args.top_k * NoFilterMultiplier) :
          IF r.ok
          THEN /\ pc' = "legacy_bm25"
               /\ seen' = [seen EXCEPT !.vec = Some(r.ids)]
               /\ resp' = resp
          ELSE /\ pc' = "idle"
               /\ seen' = [seen EXCEPT !.ann_failed = TRUE]
               /\ resp' = [op |-> "search_hybrid", args |-> seen.args,
                           ok |-> FALSE, results |-> <<>>]
    /\ UNCHANGED <<foreign_keys, assigned, DB_POOL, sources, chunks, docs, bm25, hnsw, buffer>>

\* legacy: bm25_search, RRF fusion, hydration, Ok(results)
LegacyFinish ==
    /\ pc = "legacy_bm25"
    /\ \E b \in Bm25Worker(bm25, seen.args.query_text,
                           seen.args.top_k * NoFilterMultiplier) :
          /\ seen' = [seen EXCEPT !.bm = Some(b)]
          /\ resp' = [op |-> "search_hybrid", args |-> seen.args, ok |-> TRUE,
                      results |-> LegacyHydrate(chunks, docs,
                          RrfRanking(seen.vec[1], b, seen.args.config, seen.args.top_k))]
    /\ pc' = "idle"
    /\ UNCHANGED <<foreign_keys, assigned, DB_POOL, sources, chunks, docs, bm25, hnsw, buffer>>

NextWorkers ==
    \/ pc = "idle" /\ resp = Idle /\ Len(chunks) < MaxSearchChunks
          /\ \E c \in ChunkInputs : AddChunks(1, <<c>>, 0)
    \/ pc = "idle" /\ resp = Idle /\ \E id \in 1..MaxChunkId : Bm25AddChunk(id)
    \/ RebuildChunkHnswIndex
    \/ ClearHnswIndex
    \/ resp = Idle /\ \E a \in WorkerArgs : StartHybrid(a)
    \/ VecCheckLoaded
    \/ VecSearch
    \/ VecPanic
    \/ Bm25Run
    \/ Bm25Panic
    \/ JoinHybrid
    \/ resp = Idle /\ \E a \in WorkerArgs : StartLegacy(a)
    \/ LegacyCheckLoaded
    \/ LegacySearchHnsw
    \/ LegacyFinish
    \/ Return

SpecWorkers == Init /\ [][NextWorkers]_vars

\* C7: when the HNSW search returned an error or its worker panicked (the
\* index cleared between the is-loaded check and the search included),
\* search_hybrid returns Ok with the results fused from an empty vector list
\* and the BM25 list; when the BM25 worker panicked, with those fused from
\* the vector list and an empty BM25 list.
C7_WorkerFailureTolerated ==
    (pc = "idle" /\ resp.op = "search_hybrid") =>
        /\ seen.ann_failed =>
              /\ resp.ok
              /\ IsSome(seen.bm)
              /\ resp.results \in HybridAfterJoin(sources, chunks, docs, <<>>,
                                                  seen.bm[1], seen.args)
        /\ seen.bm25_failed =>
              /\ resp.ok
              /\ IsSome(seen.vec)
              /\ resp.results \in HybridAfterJoin(sources, chunks, docs, seen.vec[1],
                                                  <<>>, seen.args)

-----------------------------------------------------------------------------
(* search_hybrid when the database fails during hydration.                 *)

HydrationFaults == {"none", "connection", "docs_query", "chunks_query"}

\* search_hybrid, its hydration meeting the fault
SearchHybridFault(a, fault) ==
    /\ \E v \in VectorWorker(hnsw, a.query_embedding, CandidateK(a.top_k, a.filter)),
          b \in Bm25Worker(bm25, a.query_text, CandidateK(a.top_k, a.filter)) :
          \E r \in HybridAfterJoinFault(sources, chunks, docs, v, b, a, fault) :
              resp' = [op |-> "search_hybrid", args |-> a, ok |-> r.ok,
                       results |-> r.results, fault |-> fault,
                       hydration_error |-> r.hydration_error]
    /\ UNCHANGED <<foreign_keys, assigned, DB_POOL, sources, chunks, docs, bm25, hnsw, buffer, pc, seen>>

HydrationArgs ==
    {[query_text |-> TxtAp, query_embedding |-> <<1, 0>>, top_k |-> k,
      config |-> DefaultConfig, filter |-> f] :
        k \in 1..MaxTopK, f \in {None, SearchFilter(Some(<<1>>), None)}}

NextHydration ==
    \/ resp = Idle /\ Len(chunks) < MaxSearchChunks
          /\ \E c \in ChunkInputs : AddChunks(1, <<c>>, 0)
    \/ resp = Idle /\ \E d \in DocInputs : AddDocument(d.content, d.embedding)
    \/ resp = Idle /\ \E id \in 1..MaxChunkId : Bm25AddChunk(id)
    \/ resp = Idle /\ RebuildChunkHnswIndex
    \/ resp = Idle /\ \E a \in HydrationArgs, f \in HydrationFaults : SearchHybridFault(a, f)
    \/ Return

SpecHydration == Init /\ [][NextHydration]_vars

\* C11: a search_hybrid call whose hydration failed to prepare or run a
\* content query returns an error, never Ok with a result list.
C11_HydrationErrorPropagates ==
    (resp.op = "search_hybrid" /\ resp.hydration_error) => ~resp.ok

-----------------------------------------------------------------------------
(* The scans over stored embeddings: blobs of any length, embeddings of    *)
(* any dimension.                                                          *)

\* search_with_hnsw: the outcomes [ok, panicked, path, results]; results are
\* the contents of the docs rows found for the neighbours
search_with_hnsw(docTbl, index, query_embedding, top_k) ==
    {IF ~r.ok THEN [ok |-> FALSE, panicked |-> FALSE, path |-> "hnsw", results |-> <<>>]
     ELSE LET found == SelectSeq(r.ids, LAMBDA id : id \in RowIds(docTbl))
          IN  [ok |-> TRUE, panicked |-> FALSE, path |-> "hnsw",
               results |-> [i \in 1..Len(found) |-> RowById(docTbl, found[i]).content]] :
        r \in search_hnsw(index, query_embedding, top_k)}

\* search_with_linear_scan: rows whose blob length is no multiple of 4 and
\* rows of another dimension are skipped; by descending similarity (stable)
search_with_linear_scan(docTbl, query_embedding, top_k) ==
    LET kept == SelectSeq(docTbl, LAMBDA r :
                    /\ Len(r.embedding) % 4 = 0
                    /\ Len(BlobToEmbedding(r.embedding)) = Len(query_embedding))
        desc(a, b) == SimLess(query_embedding, BlobToEmbedding(b.embedding),
                              BlobToEmbedding(a.embedding))
        sorted == Take(StableSort(kept, desc), top_k)
    IN  [ok |-> TRUE, panicked |-> FALSE, path |-> "linear",
         results |-> [i \in 1..Len(sorted) |-> sorted[i].content]]

\* rebuild_hnsw_index_internal: fails = TRUE makes it return Err (prepare,
\* query_map or build_hnsw_index failing); otherwise it decodes every docs
\* blob with chunks(4) .. unwrap() and builds when there are points
rebuild_hnsw_index_internal(index, docTbl, fails) ==
    IF fails THEN [index |-> index, ok |-> FALSE, panicked |-> FALSE]
    ELSE IF ScanPanics(docTbl) THEN [index |-> index, ok |-> FALSE, panicked |-> TRUE]
    ELSE [index |-> rebuild_hnsw_from(index, docTbl), ok |-> TRUE, panicked |-> FALSE]

\* search_similar: the index after the call and the outcomes it can have
search_similar(docTbl, index, query_embedding, top_k, rebuild_fails) ==
    IF query_embedding = <<>>
    THEN [index |-> index,
          outcomes |-> {[ok |-> FALSE, panicked |-> FALSE, path |-> "none", results |-> <<>>]}]
    ELSE IF is_hnsw_index_loaded(index)
    THEN [index |-> index,
          outcomes |-> search_with_hnsw(docTbl, index, query_embedding, top_k)]
    ELSE LET rb == rebuild_hnsw_index_internal(index, docTbl, rebuild_fails)
         IN  [index |-> rb.index,
              outcomes |->
                 IF rb.panicked
                 THEN {[ok |-> FALSE, panicked |-> TRUE, path |-> "rebuild", results |-> <<>>]}
                 ELSE IF rb.ok /\ is_hnsw_index_loaded(rb.index)
                 THEN search_with_hnsw(docTbl, rb.index, query_embedding, top_k)
                 ELSE {search_with_linear_scan(docTbl, query_embedding, top_k)}]

SearchSimilar(query_embedding, top_k, rebuild_fails) ==
    LET out == search_similar(docs, hnsw, query_embedding, top_k, rebuild_fails)
    IN  /\ hnsw' = out.index
        /\ \E o \in out.outcomes :
              resp' = [op |-> "search_similar", query_embedding |-> query_embedding,
                       top_k |-> top_k, rebuild_fails |-> rebuild_fails,
                       rebuild_failed |-> (query_embedding # <<>> /\ rebuild_fails
                                           /\ ~is_hnsw_index_loaded(hnsw)),
                       ok |-> o.ok,
                       panicked |-> o.panicked, path |-> o.path, results |-> o.results]
        /\ UNCHANGED <<foreign_keys, assigned, DB_POOL, sources, chunks, docs, bm25, buffer, pc, seen>>

\* search_chunks of the legacy variant: FORCE_LINEAR_SCAN sends every call
\* to search_chunks_linear, which decodes with chunks(4) .. unwrap()
SearchChunksForcedLinear(query_embedding, top_k) ==
    /\ resp' = IF ScanPanics(chunks)
               THEN [op |-> "search_chunks", query_embedding |-> query_embedding,
                     top_k |-> top_k, ok |-> FALSE, panicked |-> TRUE,
                     path |-> "linear", results |-> <<>>]
               ELSE [op |-> "search_chunks", query_embedding |-> query_embedding,
                     top_k |-> top_k, ok |-> TRUE, panicked |-> FALSE, path |-> "linear",
                     results |-> search_chunks_linear(sources, chunks, query_embedding, top_k)]
    /\ UNCHANGED <<foreign_keys, assigned, DB_POOL, sources, chunks, docs, bm25, hnsw, buffer, pc, seen>>

\* another writer of the database file stores a blob in chunks.embedding
\* (the column is a BLOB of any length)
WriteChunkBlob(id, blob) ==
    /\ id \in RowIds(chunks)
    /\ chunks' = [i \in 1..Len(chunks) |->
                     IF chunks[i].id = id THEN [chunks[i] EXCEPT !.embedding = blob]
                     ELSE chunks[i]]
    /\ resp' = [op |-> "write_chunk_blob", id |-> id]
    /\ UNCHANGED <<foreign_keys, assigned, DB_POOL, sources, docs, bm25, hnsw, buffer, pc, seen>>

\* the same for docs.embedding
WriteDocBlob(id, blob) ==
    /\ id \in RowIds(docs)
    /\ docs' = [i \in 1..Len(docs) |->
                   IF docs[i].id = id THEN [docs[i] EXCEPT !.embedding = blob]
                   ELSE docs[i]]
    /\ resp' = [op |-> "write_doc_blob", id |-> id]
    /\ UNCHANGED <<foreign_keys, assigned, DB_POOL, sources, chunks, bm25, hnsw, buffer, pc, seen>>

\* a blob of five bytes: one f32 and a stray byte
MalformedBlob == <<0, 0, 128, 63, 0>>

\* chunks of the query's dimension and one of dimension 1
ScanChunkInputs ==
    ChunkInputs \cup {[content |-> TxtAppleC, chunk_index |-> 2, embedding |-> <<1>>]}

ScanArgs ==
    {[query_text |-> TxtAp, query_embedding |-> <<1, 0>>, top_k |-> k,
      config |-> DefaultConfig, filter |-> SearchFilter(Some(<<1>>), None)] :
        k \in 1..MaxTopK}

NextScan ==
    \/ resp = Idle /\ Len(chunks) < MaxSearchChunks
          /\ \E c \in ScanChunkInputs : AddChunks(1, <<c>>, 0)
    \/ resp = Idle /\ \E d \in DocInputs : AddDocument(d.content, d.embedding)
    \/ resp = Idle /\ \E id \in 1..MaxChunkId : WriteChunkBlob(id, MalformedBlob)
    \/ resp = Idle /\ \E id \in 1..MaxDocs : WriteDocBlob(id, MalformedBlob)
    \/ resp = Idle /\ \E a \in ScanArgs : SearchHybrid(a)
    \/ resp = Idle /\ \E k \in 1..MaxTopK : SearchChunksForcedLinear(<<1, 0>>, k)
    \/ resp = Idle /\ \E k \in 1..MaxTopK, f \in BOOLEAN : SearchSimilar(<<1, 0>>, k, f)
    \/ Return

SpecScan == Init /\ [][NextScan]_vars

\* C12: a stored blob whose length is no multiple of 4 never makes a search
\* panic or fail: the exact scan of search_hybrid, the linear scan of
\* search_chunks and the linear scan of search_similar return normally, the
\* linear scans without that candidate.
C12_MalformedBlobDropped ==
    /\ (resp.op = "search_hybrid" /\ HasSourceFilter(resp.args.filter)
           /\ ScanPanics(ScopedRows(chunks, resp.args.filter[1].source_ids[1])))
          => resp.ok /\ ~resp.panicked
    /\ (resp.op = "search_chunks" /\ resp.path = "linear" /\ ScanPanics(chunks))
          => /\ resp.ok /\ ~resp.panicked
             /\ \A i \in 1..Len(resp.results) :
                   ~BlobDecodePanics(RowById(chunks, resp.results[i].chunk_id).embedding)
    /\ (resp.op = "search_similar" /\ resp.path = "linear" /\ ScanPanics(docs))
          => /\ resp.ok /\ ~resp.panicked
             /\ \A i \in 1..Len(resp.results) : \A d \in Range(docs) :
                   d.content = resp.results[i] => ~BlobDecodePanics(d.embedding)

\* the stored dimension of a row differs from the query's
DimensionDiffers(row, query_embedding) ==
    Len(BlobToEmbedding(row.embedding)) # Len(query_embedding)

\* C13: a chunk whose stored dimension differs from the query's is
\* not among the results of the scoped exact scan nor of the linear scan.
C13_DimensionMismatchNotReturned ==
    /\ (resp.op = "search_hybrid" /\ HasSourceFilter(resp.args.filter) /\ ~resp.panicked)
          => /\ resp.ok
             /\ \A i \in 1..Len(resp.results) :
                   ~DimensionDiffers(RowById(chunks, resp.results[i].doc_id),
                                     resp.args.query_embedding)
    /\ (resp.op = "search_chunks" /\ resp.path = "linear" /\ ~resp.panicked)
          => /\ resp.ok
             /\ \A i \in 1..Len(resp.results) :
                   ~DimensionDiffers(RowById(chunks, resp.results[i].chunk_id),
                                     resp.query_embedding)

-----------------------------------------------------------------------------
(* Rebuilding the indexes.                                                 *)

\* rebuild_bm25_index: bm25_clear_index, then every (id, content) of docs
rebuild_bm25_index(docTbl) ==
    IF docTbl = <<>> THEN EmptyIndex
    ELSE Bm25AddDocuments(EmptyIndex,
                          [i \in 1..Len(docTbl) |-> <<docTbl[i].id, docTbl[i].content>>])

RebuildBm25Index ==
    /\ bm25' = rebuild_bm25_index(docs)
    /\ resp' = [op |-> "rebuild_bm25_index"]
    /\ UNCHANGED <<foreign_keys, assigned, DB_POOL, sources, chunks, docs, hnsw, buffer, pc, seen>>

\* build_hnsw_index called with the points of the caller
BuildHnswIndex(points) ==
    /\ hnsw' = build_hnsw_index(hnsw, points)
    /\ resp' = [op |-> "build_hnsw_index", points |-> points]
    /\ UNCHANGED <<foreign_keys, assigned, DB_POOL, sources, chunks, docs, bm25, buffer, pc, seen>>

clear_all_documents ==
    /\ docs' = <<>>
    /\ hnsw' = None
    /\ bm25' = EmptyIndex
    /\ buffer' = <<>>
    /\ resp' = [op |-> "clear_all_documents"]
    /\ UNCHANGED <<foreign_keys, assigned, DB_POOL, sources, chunks, pc, seen>>

\* documents with and without a token of MinTokenLen characters
RebuildDocInputs == DocInputs \cup {[content |-> TxtC, embedding |-> <<1, 0>>]}

PointLists ==
    {<<>>,
     <<[id |-> 1, embedding |-> <<1, 0>>]>>,
     <<[id |-> 2, embedding |-> <<0, 1>>]>>,
     <<[id |-> 1, embedding |-> <<1, 0>>], [id |-> 2, embedding |-> <<0, 1>>]>>}

NextRebuild ==
    \/ \E d \in RebuildDocInputs : AddDocument(d.content, d.embedding)
    \/ Len(chunks) < MaxSearchChunks /\ \E c \in ChunkInputs : AddChunks(1, <<c>>, 0)
    \/ \E id \in 1..MaxChunkId : Bm25AddChunk(id)
    \/ RebuildBm25Index
    \/ \E points \in PointLists : BuildHnswIndex(points)
    \/ RebuildHnswIndex
    \/ ClearHnswIndex
    \/ clear_all_documents
    \/ Return

SpecRebuild == Init /\ [][NextRebuild]_vars

\* C14: after rebuild_bm25_index returns Ok, the ids in the BM25 index are the
\* ids of the rows of the docs table: no id of a deleted row remains and no
\* stored row is missing.
C14_Bm25RebuildCoversTable ==
    resp.op = "rebuild_bm25_index" => DOMAIN bm25.doc_meta = RowIds(docs)

\* the ids of the points of the loaded graph
HnswIds(index) == IF IsSome(index) THEN {index[1][i].id : i \in 1..Len(index[1])} ELSE {}

\* C15: build_hnsw_index replaces any existing graph: after it returns Ok the
\* index holds exactly the ids of its points, and after a build with an empty
\* list of points is_hnsw_index_loaded() is false.
C15_BuildReplacesGraph ==
    resp.op = "build_hnsw_index" =>
        /\ HnswIds(hnsw) = {resp.points[i].id : i \in 1..Len(resp.points)}
        /\ resp.points = <<>> => ~is_hnsw_index_loaded(hnsw)

-----------------------------------------------------------------------------
(* The connection pool.                                                    *)

MaxPoolSize == 2

\* init_db_pool that stores the new pool over whatever the cell holds
init_db_pool_overwrite(cell, db_path, max_size, build_fails) ==
    IF build_fails THEN [cell |-> cell, ok |-> FALSE]
    ELSE [cell |-> <<Some([db_path |-> db_path, max_size |-> max_size, held |-> 0])>>,
          ok |-> TRUE]

\* init_db_pool: builds a pool, which can fail; DB_POOL.get_or_init stores it
\* only in a cell that was never set, and the call returns Ok either way
init_db_pool(cell, db_path, max_size, build_fails) ==
    IF build_fails THEN [cell |-> cell, ok |-> FALSE]
    ELSE [cell |-> IF cell = <<>>
                   THEN <<Some([db_path |-> db_path, max_size |-> max_size, held |-> 0])>>
                   ELSE cell,
          ok |-> TRUE]

\* get_connection: an error for an unset cell, for a closed pool, and when no
\* connection comes free within the timeout; else one more connection is held
get_connection(cell) ==
    IF cell = <<>> THEN [cell |-> cell, ok |-> FALSE, error |-> "not initialized"]
    ELSE IF ~IsSome(cell[1]) THEN [cell |-> cell, ok |-> FALSE, error |-> "pool is None"]
    ELSE IF cell[1][1].held = cell[1][1].max_size
         THEN [cell |-> cell, ok |-> FALSE, error |-> "timeout"]
    ELSE [cell |-> <<Some([cell[1][1] EXCEPT !.held = @ + 1])>>, ok |-> TRUE,
          error |-> "none"]

is_pool_initialized(cell) == cell # <<>> /\ IsSome(cell[1])

close_db_pool(cell) == IF cell = <<>> THEN cell ELSE <<None>>

InitDbPool(db_path, max_size, build_fails) ==
    LET r == init_db_pool(DB_POOL, db_path, max_size, build_fails)
    IN  /\ DB_POOL' = r.cell
        /\ resp' = [op |-> "init_db_pool", db_path |-> db_path, max_size |-> max_size,
                    build_fails |-> build_fails, ok |-> r.ok]
        /\ UNCHANGED <<foreign_keys, assigned, sources, chunks, docs, bm25, hnsw, buffer, pc, seen>>

GetConnection ==
    LET r == get_connection(DB_POOL)
    IN  /\ DB_POOL' = r.cell
        /\ resp' = [op |-> "get_connection", ok |-> r.ok, error |-> r.error]
        /\ UNCHANGED <<foreign_keys, assigned, sources, chunks, docs, bm25, hnsw, buffer, pc, seen>>

\* a PooledConnection goes out of scope and returns to its pool
DropConnection ==
    /\ is_pool_initialized(DB_POOL)
    /\ DB_POOL[1][1].held > 0
    /\ DB_POOL' = <<Some([DB_POOL[1][1] EXCEPT !.held = @ - 1])>>
    /\ resp' = [op |-> "drop_connection"]
    /\ UNCHANGED <<foreign_keys, assigned, sources, chunks, docs, bm25, hnsw, buffer, pc, seen>>

IsPoolInitialized ==
    /\ resp' = [op |-> "is_pool_initialized", value |-> is_pool_initialized(DB_POOL)]
    /\ UNCHANGED <<foreign_keys, assigned, DB_POOL, sources, chunks, docs, bm25, hnsw, buffer, pc, seen>>

CloseDbPool ==
    /\ DB_POOL' = close_db_pool(DB_POOL)
    /\ resp' = [op |-> "close_db_pool"]
    /\ UNCHANGED <<foreign_keys, assigned, sources, chunks, docs, bm25, hnsw, buffer, pc, seen>>

DbPaths == {"a.sqlite", "b.sqlite"}

NextPool ==
    \/ resp = Idle /\ \E p \in DbPaths, n \in 1..MaxPoolSize, f \in BOOLEAN :
                         InitDbPool(p, n, f)
    \/ resp = Idle /\ GetConnection
    \/ resp = Idle /\ DropConnection
    \/ resp = Idle /\ IsPoolInitialized
    \/ resp = Idle /\ CloseDbPool
    \/ Return

SpecPool == Init /\ [][NextPool]_vars

\* C16: whenever init_db_pool returns Ok, is_pool_initialized() is true and
\* get_connection() finds the pool, also when the call follows a close_db_pool.
C16_InitOkMeansPoolOpen ==
    (resp.op = "init_db_pool" /\ resp.ok) =>
        /\ is_pool_initialized(DB_POOL)
        /\ get_connection(DB_POOL).error \in {"none", "timeout"}

\* C17 as the code has it: a call to init_db_pool while a pool is open leaves
\* the pool that is open as it was (path, max size, connections), whatever the
\* arguments and the outcome of the call, and returns Ok when a pool for its
\* arguments could be built.
C17_InitOnceKeepsPool ==
    [][(resp = Idle /\ resp'.op = "init_db_pool" /\ is_pool_initialized(DB_POOL))
          => (DB_POOL' = DB_POOL /\ (resp'.ok <=> ~resp'.build_fails))]_vars

\* a call with another path and size returned Ok while a pool with a held
\* connection was open
C17_Witness ==
    /\ resp.op = "init_db_pool"
    /\ resp.ok
    /\ is_pool_initialized(DB_POOL)
    /\ DB_POOL[1][1].held > 0
    /\ DB_POOL[1][1].db_path # resp.db_path
    /\ DB_POOL[1][1].max_size # resp.max_size

\* C17 as stated: a second call to init_db_pool while a pool is open returns Ok
\* and leaves the existing pool as it was.
C17_SecondInitReturnsOk ==
    [][(resp = Idle /\ resp'.op = "init_db_pool" /\ is_pool_initialized(DB_POOL))
          => (resp'.ok /\ DB_POOL' = DB_POOL)]_vars

-----------------------------------------------------------------------------
(* A search whose rebuild of the ANN index fails.                          *)

\* search_chunks when rebuild_chunk_hnsw_index can return Err (rebuild_fails):
\* the error of a rebuild that was attempted is returned with `?`
search_chunks_rebuild(srcTbl, chunkTbl, index, query_embedding, top_k, rebuild_fails) ==
    IF ~is_hnsw_index_loaded(index) /\ rebuild_fails
    THEN [index |-> index,
          outcomes |-> {[ok |-> FALSE, path |-> "none", results |-> <<>>]}]
    ELSE LET out == search_chunks(srcTbl, chunkTbl, index, query_embedding, top_k)
         IN  [index |-> out.index,
              outcomes |-> {[ok |-> TRUE,
                             path |-> IF is_hnsw_index_loaded(out.index)
                                      THEN "hnsw" ELSE "linear",
                             results |-> r] : r \in out.results}]

SearchChunksRebuild(query_embedding, top_k, rebuild_fails) ==
    LET out == search_chunks_rebuild(sources, chunks, hnsw, query_embedding, top_k,
                                     rebuild_fails)
    IN  /\ hnsw' = out.index
        /\ \E o \in out.outcomes :
              resp' = [op |-> "search_chunks", query_embedding |-> query_embedding,
                       top_k |-> top_k,
                       rebuild_failed |-> (rebuild_fails /\ ~is_hnsw_index_loaded(hnsw)),
                       ok |-> o.ok, panicked |-> FALSE, path |-> o.path,
                       results |-> o.results]
        /\ UNCHANGED <<foreign_keys, assigned, DB_POOL, sources, chunks, docs, bm25, buffer, pc, seen>>

NextFallback ==
    \/ resp = Idle /\ Len(chunks) < MaxSearchChunks
          /\ \E c \in ChunkInputs : AddChunks(1, <<c>>, 0)
    \/ resp = Idle /\ \E d \in DocInputs : AddDocument(d.content, d.embedding)
    \/ resp = Idle /\ ClearHnswIndex
    \/ resp = Idle /\ \E q \in QueryEmbeddings, k \in 1..MaxTopK, f \in BOOLEAN :
                         SearchChunksRebuild(q, k, f)
    \/ resp = Idle /\ \E q \in QueryEmbeddings, k \in 1..MaxTopK, f \in BOOLEAN :
                         SearchSimilar(q, k, f)
    \/ Return

SpecFallback == Init /\ [][NextFallback]_vars

\* C18: when the rebuild of the ANN index fails during search_chunks or
\* search_similar, the search does not return that error: it falls back to
\* the linear scan and returns its results.
C18_RebuildFailureFallsBack ==
    (resp.op \in {"search_chunks", "search_similar"} /\ resp.rebuild_failed)
        => (resp.ok /\ resp.path = "linear")

-----------------------------------------------------------------------------
(* Searching after rows were deleted.                                      *)

StaleArgs ==
    {[query_text |-> TxtAp, query_embedding |-> <<1, 0>>, top_k |-> MaxTopK,
      config |-> DefaultConfig, filter |-> f] :
        f \in {None, SearchFilter(Some(<<1>>), None)}}

NextStale ==
    \/ resp = Idle /\ Len(chunks) < MaxSearchChunks
          /\ \E c \in ChunkInputs : AddChunks(1, <<c>>, 0)
    \/ resp = Idle /\ DeleteSource(1)
    \/ resp = Idle /\ \E id \in 1..MaxChunkId : Bm25AddChunk(id)
    \/ resp = Idle /\ Len(buffer) < MaxSearchChunks
          /\ \E id \in 1..MaxChunkId : IncrementalAddChunk(id)
    \/ resp = Idle /\ RebuildChunkHnswIndex
    \/ resp = Idle /\ AddDocument(TxtBanana, <<1, 0>>)
    \/ resp = Idle /\ \E a \in StaleArgs : SearchHybrid(a)
    \/ resp = Idle /\ SearchChunks(<<1, 0>>, MaxTopK)
    \/ resp = Idle /\ SearchSimilar(<<1, 0>>, MaxTopK, FALSE)
    \/ Return

SpecStale == Init /\ [][NextStale]_vars

\* the ids the ANN graph, the BM25 index or the buffer still hold although no
\* row of the Store has them
StaleIds ==
    (HnswIds(hnsw) \cup DOMAIN bm25.doc_meta \cup {buffer[i].id : i \in 1..Len(buffer)})
        \ (RowIds(chunks) \cup RowIds(docs))

\* a row of the table with this id and this content
Stored(tbl, id, content) == \E i \in 1..Len(tbl) : tbl[i].id = id /\ tbl[i].content = content

\* C19: a row deleted from the Store whose id is still in the ANN graph, the
\* BM25 index or the buffer is never returned by search_hybrid, search_chunks
\* or search_similar: everything they return is a row the Store holds.
C19_DeletedRowNotReturned ==
    /\ resp.op = "search_hybrid" =>
          \A i \in 1..Len(resp.results) :
              \/ Stored(chunks, resp.results[i].doc_id, resp.results[i].content)
              \/ Stored(docs, resp.results[i].doc_id, resp.results[i].content)
    /\ resp.op = "search_chunks" =>
          \A i \in 1..Len(resp.results) :
              Stored(chunks, resp.results[i].chunk_id, resp.results[i].content)
    /\ resp.op = "search_similar" =>
          \A i \in 1..Len(resp.results) :
              \E d \in Range(docs) : d.content = resp.results[i]

\* a search_hybrid call without a filter returned a stored row while the ANN
\* graph and the BM25 index held the id of a deleted row
C19_Witness ==
    /\ resp.op = "search_hybrid"
    /\ resp.args.filter = None
    /\ resp.results # <<>>
    /\ StaleIds \cap (HnswIds(hnsw) \cap DOMAIN bm25.doc_meta) # {}

-----------------------------------------------------------------------------
(* The ids the tables give their rows.                                     *)

NextIds ==
    \/ \E c \in SourceContents : AddSource(c, None)
    \/ Len(chunks) < MaxSearchChunks /\ \E c \in ChunkInputs : AddChunks(1, <<c>>, 0)
    \/ \E sid \in 1..MaxSourceId : DeleteSource(sid)
    \/ \E d \in DocInputs : AddDocument(d.content, d.embedding)
    \/ clear_all_documents

\* the tables empty and the history of the ids kept from the start
InitIds ==
    /\ foreign_keys = FALSE
    /\ assigned = Some([sources |-> 0, chunks |-> 0, docs |-> 0])
    /\ DB_POOL = <<>>
    /\ sources = <<>>
    /\ chunks = <<>>
    /\ docs = <<>>
    /\ bm25 = EmptyIndex
    /\ hnsw = None
    /\ buffer = <<>>
    /\ resp = Idle
    /\ pc = "idle"
    /\ seen = Idle

SpecIds == InitIds /\ [][NextIds]_vars

\* C20: source, chunk and doc ids are monotone: an id given to a new row is
\* greater than every id given earlier in that table, so the id of a deleted
\* row is never given to another row.
C20_IdsMonotone ==
    [][/\ \A id \in RowIds(sources') \ RowIds(sources) : id > assigned[1].sources
       /\ \A id \in RowIds(chunks') \ RowIds(chunks) : id > assigned[1].chunks
       /\ \A id \in RowIds(docs') \ RowIds(docs) : id > assigned[1].docs]_vars

-----------------------------------------------------------------------------
(* The references from chunks to sources.                                  *)

\* the tables empty; the pool's connections set no PRAGMA foreign_keys, so
\* whether the clause is enforced is the default of the SQLite library
InitRefs ==
    /\ foreign_keys \in BOOLEAN
    /\ assigned = None
    /\ DB_POOL = <<>>
    /\ sources = <<>>
    /\ chunks = <<>>
    /\ docs = <<>>
    /\ bm25 = EmptyIndex
    /\ hnsw = None
    /\ buffer = <<>>
    /\ resp = Idle
    /\ pc = "idle"
    /\ seen = Idle

NextRefs ==
    \/ \E c \in SourceContents : AddSource(c, None)
    \/ \E sid \in 1..MaxSources, b \in Batches : AddChunks(sid, b, 0)
    \/ \E sid \in 1..MaxSourceId : DeleteSource(sid)

SpecRefs == InitRefs /\ [][NextRefs]_vars

\* C21: in every reachable state each chunk's source_id names an existing
\* source row, and after delete_source(id) no chunk with source_id = id remains.
C21_ChunksReferenceSources ==
    /\ \A i \in 1..Len(chunks) : chunks[i].source_id \in RowIds(sources)
    /\ resp.op = "delete_source" =>
          \A i \in 1..Len(chunks) : chunks[i].source_id # resp.source_id

\* C22: in every reachable state chunk_index is unique within a source: no
\* sequence of add_chunks calls stores two chunks with the same
\* (source_id, chunk_index).
C22_ChunkIndexUnique ==
    \A i, j \in 1..Len(chunks) :
        (chunks[i].source_id = chunks[j].source_id
            /\ chunks[i].chunk_index = chunks[j].chunk_index) => i = j

-----------------------------------------------------------------------------
(* The BM25 index under the calls of its public API.                       *)

MaxBm25Id == 3

TxtApBa == <<"a", "p", " ", "b", "a">>

Bm25Contents == {TxtAppleC, TxtBanana, TxtApBa, TxtC}

\* avg_doc_length as the code keeps it: total_tokens / doc_count, 0.0 for an
\* empty index, here as the pair it is the quotient of
AvgDocLength(index) ==
    IF index.doc_count > 0 THEN <<index.total_tokens, index.doc_count>> ELSE <<0, 1>>

\* bm25_add_document
Bm25AddDocumentCall(doc_id, content) ==
    /\ bm25' = Bm25AddDocument(bm25, doc_id, content)
    /\ resp' = [op |-> "bm25_add_document", doc_id |-> doc_id, content |-> content]
    /\ UNCHANGED <<foreign_keys, assigned, DB_POOL, sources, chunks, docs, hnsw, buffer,
                   pc, seen>>

\* bm25_add_documents
Bm25AddDocumentsCall(pairs) ==
    /\ bm25' = Bm25AddDocuments(bm25, pairs)
    /\ resp' = [op |-> "bm25_add_documents", docs |-> pairs]
    /\ UNCHANGED <<foreign_keys, assigned, DB_POOL, sources, chunks, docs, hnsw, buffer,
                   pc, seen>>

\* bm25_remove_document; was_indexed tells which branch remove_document took
Bm25RemoveDocumentCall(doc_id) ==
    /\ bm25' = Bm25RemoveDocument(bm25, doc_id)
    /\ resp' = [op |-> "bm25_remove_document", doc_id |-> doc_id,
                was_indexed |-> doc_id \in DOMAIN bm25.doc_meta]
    /\ UNCHANGED <<foreign_keys, assigned, DB_POOL, sources, chunks, docs, hnsw, buffer,
                   pc, seen>>

\* bm25_clear_index
Bm25ClearIndex ==
    /\ bm25' = EmptyIndex
    /\ resp' = [op |-> "bm25_clear_index"]
    /\ UNCHANGED <<foreign_keys, assigned, DB_POOL, sources, chunks, docs, hnsw, buffer,
                   pc, seen>>

\* bm25_search
Bm25Search(query, top_k) ==
    /\ \E r \in bm25_search(bm25, query, top_k) :
          resp' = [op |-> "bm25_search", query |-> query, top_k |-> top_k, results |-> r]
    /\ UNCHANGED <<foreign_keys, assigned, DB_POOL, sources, chunks, docs, bm25, hnsw,
                   buffer, pc, seen>>

Bm25Pairs ==
    {<<<<1, TxtAppleC>>, <<2, TxtApBa>>>>, <<<<3, TxtBanana>>, <<3, TxtAppleC>>>>}

NextBm25 ==
    \/ resp = Idle /\ \E id \in 1..MaxBm25Id, c \in Bm25Contents : Bm25AddDocumentCall(id, c)
    \/ resp = Idle /\ \E pairs \in Bm25Pairs : Bm25AddDocumentsCall(pairs)
    \/ resp = Idle /\ \E id \in 1..MaxBm25Id : Bm25RemoveDocumentCall(id)
    \/ resp = Idle /\ Bm25ClearIndex
    \/ resp = Idle /\ \E q \in {TxtAp, TxtApBa}, k \in 1..MaxBm25Id : Bm25Search(q, k)
    \/ Return

SpecBm25 == Init /\ [][NextBm25]_vars

\* C23: BM25 add is idempotent on chunk_id: adding an id that is already
\* indexed, with the same or different content, leaves postings, doc_meta,
\* doc_count, total_tokens and avg_doc_length unchanged.
C23_Bm25AddIdempotent ==
    [][(resp = Idle /\ resp'.op = "bm25_add_document"
           /\ resp'.doc_id \in DOMAIN bm25.doc_meta)
          => /\ bm25'.postings = bm25.postings
             /\ bm25'.doc_meta = bm25.doc_meta
             /\ bm25'.doc_count = bm25.doc_count
             /\ bm25'.total_tokens = bm25.total_tokens
             /\ AvgDocLength(bm25') = AvgDocLength(bm25)]_vars

\* an indexed id was added again with a content of another number of tokens
C23_Witness ==
    /\ resp.op = "bm25_add_document"
    /\ resp.doc_id \in DOMAIN bm25.doc_meta
    /\ Len(tokenize_for_bm25(resp.content)) > 0
    /\ Len(tokenize_for_bm25(resp.content)) # bm25.doc_meta[resp.doc_id]

RECURSIVE SumOfLengths(_, _)
\* the sum of the lengths doc_meta holds for the ids
SumOfLengths(meta, ids) ==
    IF ids = {} THEN 0
    ELSE LET d == CHOOSE x \in ids : TRUE
         IN  meta[d] + SumOfLengths(meta, ids \ {d})

\* the ids the posting list of a term names
PostingIds(index, t) == {index.postings[t][i][1] : i \in 1..Len(index.postings[t])}

\* C24: after any sequence of BM25 add, add_many, remove and clear: doc_count
\* is the number of doc_meta entries, total_tokens the sum of their lengths,
\* every posting refers to an id in doc_meta, no posting list is empty, and an
\* id that was removed is in no posting and in no search result.
C24_Bm25IndexConsistent ==
    /\ bm25.doc_count = Cardinality(DOMAIN bm25.doc_meta)
    /\ bm25.total_tokens = SumOfLengths(bm25.doc_meta, DOMAIN bm25.doc_meta)
    /\ \A t \in DOMAIN bm25.postings :
          /\ bm25.postings[t] # <<>>
          /\ PostingIds(bm25, t) \subseteq DOMAIN bm25.doc_meta
    /\ resp.op = "bm25_remove_document" =>
          /\ resp.doc_id \notin DOMAIN bm25.doc_meta
          /\ \A t \in DOMAIN bm25.postings : resp.doc_id \notin PostingIds(bm25, t)
    /\ resp.op = "bm25_search" =>
          \A i \in 1..Len(resp.results) : resp.results[i].doc_id \in DOMAIN bm25.doc_meta

\* an indexed id was removed while another document sharing a term with it
\* stays indexed
C24_Witness ==
    /\ resp.op = "bm25_remove_document"
    /\ resp.was_indexed
    /\ bm25.doc_count > 0
    /\ \E t \in DOMAIN bm25.postings : Len(bm25.postings[t]) > 1

\* doc a was inserted before doc b: it stands earlier in a posting list
InsertedBefore(index, a, b) ==
    \E t \in DOMAIN index.postings :
        \E i, j \in 1..Len(index.postings[t]) :
            i < j /\ index.postings[t][i][1] = a /\ index.postings[t][j][1] = b

\* two documents whose score is the same sum: the same length and the same
\* term frequency for every token of the query
SameScoreTerms(index, query, a, b) ==
    /\ index.doc_meta[a] = index.doc_meta[b]
    /\ \A t \in Range(tokenize_for_bm25(query)) :
          t \in DOMAIN index.postings =>
              PostingTf(index.postings[t], a) = PostingTf(index.postings[t], b)

\* C25: BM25 search is deterministic in its tie order: documents with equal
\* score are returned in the order in which their ids were inserted.
C25_Bm25TieOrder ==
    resp.op = "bm25_search" =>
        \A i, j \in 1..Len(resp.results) :
            (i < j /\ SameScoreTerms(bm25, resp.query, resp.results[i].doc_id,
                                     resp.results[j].doc_id))
                => ~InsertedBefore(bm25, resp.results[j].doc_id, resp.results[i].doc_id)

-----------------------------------------------------------------------------
(* The incremental index: the recent-insert buffer merged with the graph.  *)

\* cosine_distance of a buffer entry to the query: 1.0 when either norm is 0,
\* else 1 - dot / (norm * other_norm). The distance is kept as the exact
\* similarity it is 1 minus.
cosine_distance(a, b) == SimSq(a, b)

\* x < y for two distances (partial_cmp of the two f32 values)
DistanceLess(x, y) == y.sign * y.num * x.den < x.sign * x.num * y.den

\* a dedup that keeps the last occurrence of an id
DedupKeepLast(s) ==
    LET keep == {i \in 1..Len(s) : \A j \in (i + 1)..Len(s) : s[j].doc_id # s[i].doc_id}
        pick[k \in 0..Len(s)] ==
            IF k = 0 THEN <<>>
            ELSE IF k \in keep THEN Append(pick[k - 1], s[k]) ELSE pick[k - 1]
    IN  pick[Len(s)]

\* the loop over all_results with seen_ids.insert(id): the first occurrence
\* of every id, in order
DedupBySeenIds(s) ==
    LET keep == {i \in 1..Len(s) : \A j \in 1..(i - 1) : s[j].doc_id # s[i].doc_id}
        pick[k \in 0..Len(s)] ==
            IF k = 0 THEN <<>>
            ELSE IF k \in keep THEN Append(pick[k - 1], s[k]) ELSE pick[k - 1]
    IN  pick[Len(s)]

\* the distance Hnsw::search reports for the point of an id
HnswDistance(points, id, query_embedding) ==
    LET i == CHOOSE k \in 1..Len(points) : points[k].id = id
    IN  cosine_distance(query_embedding, points[i].embedding)

\* incremental_search: every buffer entry, then (when the graph is loaded)
\* the top_k * 2 nearest points of the graph; sorted by ascending distance
\* (stable), deduplicated by id, the first top_k. The value is the set of
\* outcomes: the ids the graph returned and the merged results.
incremental_search(buf, index, query_embedding, top_k) ==
    LET from_buffer ==
            [i \in 1..Len(buf) |->
                [doc_id |-> buf[i].id,
                 distance |-> cosine_distance(buf[i].embedding, query_embedding),
                 source |-> "buffer"]]
        from_hnsw(ids) ==
            [i \in 1..Len(ids) |->
                [doc_id |-> ids[i],
                 distance |-> HnswDistance(index[1], ids[i], query_embedding),
                 source |-> "hnsw"]]
        less(a, b) == DistanceLess(a.distance, b.distance)
        merged(all_results) == Take(DedupBySeenIds(StableSort(all_results, less)), top_k)
    IN  IF is_hnsw_index_loaded(index)
        THEN {[ann |-> r.ids, results |-> merged(from_buffer \o from_hnsw(r.ids))] :
                r \in search_hnsw(index, query_embedding, top_k * 2)}
        ELSE {[ann |-> <<>>, results |-> merged(from_buffer)]}

MaxBuffer == 3

\* incremental_add called by the host with an id and an embedding
IncrementalAdd(doc_id, embedding) ==
    /\ Len(buffer) < MaxBuffer
    /\ buffer' = incremental_add(buffer, doc_id, embedding)
    /\ resp' = [op |-> "incremental_add", doc_id |-> doc_id]
    /\ UNCHANGED <<foreign_keys, assigned, DB_POOL, sources, chunks, docs, bm25, hnsw, pc, seen>>

\* incremental_remove: retain the entries of the other ids
IncrementalRemove(doc_id) ==
    /\ buffer' = SelectSeq(buffer, LAMBDA e : e.id # doc_id)
    /\ resp' = [op |-> "incremental_remove", doc_id |-> doc_id]
    /\ UNCHANGED <<foreign_keys, assigned, DB_POOL, sources, chunks, docs, bm25, hnsw, pc, seen>>

IncrementalSearch(query_embedding, top_k) ==
    /\ \E out \in incremental_search(buffer, hnsw, query_embedding, top_k) :
          resp' = [op |-> "incremental_search", query_embedding |-> query_embedding,
                   top_k |-> top_k, ann |-> out.ann, results |-> out.results]
    /\ UNCHANGED <<foreign_keys, assigned, DB_POOL, sources, chunks, docs, bm25, hnsw, buffer, pc, seen>>

BufferEmbeddings == {<<1, 0>>, <<1, 1>>, <<0, 1>>, <<0, 0>>}

GraphPointLists ==
    {<<[id |-> 1, embedding |-> <<1, 0>>]>>,
     <<[id |-> 1, embedding |-> <<0, 1>>], [id |-> 2, embedding |-> <<1, 1>>]>>,
     <<[id |-> 1, embedding |-> <<1, 1>>], [id |-> 2, embedding |-> <<1, 0>>],
       [id |-> 3, embedding |-> <<0, 1>>]>>}

NextIncremental ==
    \/ resp = Idle /\ \E id \in 1..2, e \in BufferEmbeddings : IncrementalAdd(id, e)
    \/ resp = Idle /\ \E id \in 1..2 : IncrementalRemove(id)
    \/ resp = Idle /\ \E points \in GraphPointLists : BuildHnswIndex(points)
    \/ resp = Idle /\ ClearHnswIndex
    \/ resp = Idle /\ \E q \in QueryEmbeddings, k \in 1..MaxTopK : IncrementalSearch(q, k)
    \/ Return

SpecIncremental == Init /\ [][NextIncremental]_vars

\* the distances of the occurrences of an id among the candidates of the
\* search that returned: the buffer entries and the points the graph returned
OccurrenceDistances(id) ==
    {cosine_distance(buffer[i].embedding, resp.query_embedding) :
        i \in {j \in 1..Len(buffer) : buffer[j].id = id}}
    \cup {HnswDistance(hnsw[1], resp.ann[i], resp.query_embedding) :
            i \in {j \in 1..Len(resp.ann) : resp.ann[j] = id}}

\* C26: incremental_search returns at most top_k results, in ascending order
\* of distance, with no id twice; the result of an id carries the lowest
\* distance of the occurrences of that id in the buffer and in the results
\* of the graph.
C26_IncrementalSearchMerged ==
    resp.op = "incremental_search" =>
        LET r == resp.results
        IN  /\ Len(r) <= resp.top_k
            /\ \A i \in 1..(Len(r) - 1) : ~DistanceLess(r[i + 1].distance, r[i].distance)
            /\ \A i, j \in 1..Len(r) : i # j => r[i].doc_id # r[j].doc_id
            /\ \A i \in 1..Len(r) :
                  /\ r[i].distance \in OccurrenceDistances(r[i].doc_id)
                  /\ \A d \in OccurrenceDistances(r[i].doc_id) :
                        ~DistanceLess(d, r[i].distance)

\* a search returned an id that occurs in the buffer and in the results of
\* the graph at different distances
C26_Witness ==
    /\ resp.op = "incremental_search"
    /\ \E i \in 1..Len(resp.results) :
          LET id == resp.results[i].doc_id
          IN  /\ \E j \in 1..Len(buffer) : buffer[j].id = id
              /\ \E j \in 1..Len(resp.ann) : resp.ann[j] = id
              /\ \E d \in OccurrenceDistances(id) : DistanceLess(resp.results[i].distance, d)

-----------------------------------------------------------------------------
(* The pooled connections a search holds, step by step.                    *)

\* a PooledConnection that was taken but never returns to its pool
PooledConnectionLeak(cell) == cell

\* Drop of a PooledConnection: it returns to the pool it came from
PooledConnectionDrop(cell) ==
    IF is_pool_initialized(cell) /\ cell[1][1].held > 0
    THEN <<Some([cell[1][1] EXCEPT !.held = @ - 1])>>
    ELSE cell

\* the connections of the open pool that are out
Held(cell) == IF is_pool_initialized(cell) THEN cell[1][1].held ELSE 0

\* search_hybrid, step 1: both workers run and are joined; no connection
HybridWorkers(a) ==
    /\ pc = "idle"
    /\ \E v \in VectorWorker(hnsw, a.query_embedding, CandidateK(a.top_k, a.filter)),
          b \in Bm25Worker(bm25, a.query_text, CandidateK(a.top_k, a.filter)) :
          seen' = [op |-> "search_hybrid", args |-> a, vec |-> v, bm |-> b]
    /\ pc' = "joined"
    /\ UNCHANGED <<foreign_keys, assigned, DB_POOL, sources, chunks, docs, bm25, hnsw, buffer, resp>>

\* the value a search returns when get_connection() fails: `?` leaves the call
SearchFails(error) ==
    /\ resp' = [op |-> seen.op, args |-> seen.args, ok |-> FALSE, error |-> error,
                results |-> <<>>]
    /\ pc' = "idle"
    /\ seen' = Idle

\* search_hybrid, step 2: the block of the exact scan or of the post-filter
\* opens with  let conn = get_connection()..?;  without a filter (or without
\* candidates for the post-filter) no block is entered
HybridEnterFilter ==
    /\ pc = "joined"
    /\ LET a == seen.args
           scan == HasSourceFilter(a.filter)
           post == ~scan /\ IsSome(a.filter) /\ Range(seen.vec) \cup Range(seen.bm) # {}
           r == get_connection(DB_POOL)
       IN  IF scan \/ post
           THEN IF r.ok
                THEN /\ DB_POOL' = r.cell
                     /\ pc' = IF scan THEN "exact_scan" ELSE "post_filter"
                     /\ UNCHANGED <<resp, seen>>
                ELSE SearchFails(r.error) /\ UNCHANGED DB_POOL
           ELSE pc' = "rank" /\ UNCHANGED <<DB_POOL, resp, seen>>
    /\ UNCHANGED <<foreign_keys, assigned, sources, chunks, docs, bm25, hnsw, buffer>>

\* search_hybrid, step 2: the block runs its query and ends, and conn goes
\* out of scope with it (also when the scan panics on a malformed blob)
HybridLeaveFilter ==
    /\ pc \in {"exact_scan", "post_filter"}
    /\ DB_POOL' = PooledConnectionDrop(DB_POOL)
    /\ IF ExactScanPanics(chunks, seen.args)
       THEN /\ resp' = [op |-> seen.op, args |-> seen.args, ok |-> FALSE,
                        error |-> "panic", results |-> <<>>]
            /\ pc' = "idle"
            /\ seen' = Idle
       ELSE /\ \E l \in CandidateLists(sources, chunks, seen.vec, seen.bm, seen.args) :
                  seen' = [seen EXCEPT !.vec = l.vec, !.bm = l.bm]
            /\ pc' = "rank"
            /\ UNCHANGED resp
    /\ UNCHANGED <<foreign_keys, assigned, sources, chunks, docs, bm25, hnsw, buffer>>

\* search_hybrid, steps 3 and 4: the ranking; Ok(vec![]) when it is empty,
\* else  let conn = get_connection()..?;  for the content fetch
HybridRank ==
    /\ pc = "rank"
    /\ LET ranked == RrfRanking(seen.vec, seen.bm, seen.args.config, seen.args.top_k)
           r == get_connection(DB_POOL)
       IN  IF ranked = <<>>
           THEN /\ resp' = [op |-> seen.op, args |-> seen.args, ok |-> TRUE,
                            error |-> "none", results |-> <<>>]
                /\ pc' = "idle"
                /\ seen' = Idle
                /\ UNCHANGED DB_POOL
           ELSE IF r.ok
           THEN /\ DB_POOL' = r.cell
                /\ pc' = "hydrate"
                /\ UNCHANGED <<resp, seen>>
           ELSE SearchFails(r.error) /\ UNCHANGED DB_POOL
    /\ UNCHANGED <<foreign_keys, assigned, sources, chunks, docs, bm25, hnsw, buffer>>

\* search_hybrid, step 4: the content fetch; the call returns and conn drops
HybridHydrate ==
    /\ pc = "hydrate"
    /\ resp' = [op |-> seen.op, args |-> seen.args, ok |-> TRUE, error |-> "none",
                results |-> Hydrate(sources, chunks, docs, seen.args.filter,
                                    RrfRanking(seen.vec, seen.bm, seen.args.config,
                                               seen.args.top_k))]
    /\ DB_POOL' = PooledConnectionDrop(DB_POOL)
    /\ pc' = "idle"
    /\ seen' = Idle
    /\ UNCHANGED <<foreign_keys, assigned, sources, chunks, docs, bm25, hnsw, buffer>>

\* search_chunks: when the index is not loaded, rebuild_chunk_hnsw_index()
\* is entered and takes its connection
ChunksStart(query_embedding, top_k) ==
    /\ pc = "idle"
    /\ LET call == [op |-> "search_chunks",
                    args |-> [query_embedding |-> query_embedding, top_k |-> top_k]]
           r == get_connection(DB_POOL)
       IN  IF is_hnsw_index_loaded(hnsw)
           THEN pc' = "ann" /\ seen' = call /\ UNCHANGED <<DB_POOL, resp>>
           ELSE IF r.ok
           THEN pc' = "rebuild" /\ seen' = call /\ DB_POOL' = r.cell /\ UNCHANGED resp
           ELSE /\ resp' = [op |-> call.op, args |-> call.args, ok |-> FALSE,
                            error |-> r.error, results |-> <<>>]
                /\ UNCHANGED <<DB_POOL, pc, seen>>
    /\ UNCHANGED <<foreign_keys, assigned, sources, chunks, docs, bm25, hnsw, buffer>>

\* rebuild_chunk_hnsw_index reads the chunks, builds and returns; its conn drops
ChunksRebuilt ==
    /\ pc = "rebuild"
    /\ hnsw' = rebuild_hnsw_from(hnsw, chunks)
    /\ DB_POOL' = PooledConnectionDrop(DB_POOL)
    /\ pc' = "ann"
    /\ UNCHANGED <<foreign_keys, assigned, sources, chunks, docs, bm25, buffer, resp, seen>>

\* search_chunks after the rebuild: search_chunks_linear takes a connection
\* when the index is still not loaded; else search_hnsw runs and then
\* let conn = get_connection()?;  for the rows of its results
ChunksTakeConnection ==
    /\ pc = "ann"
    /\ LET r == get_connection(DB_POOL)
       IN  IF r.ok
           THEN /\ DB_POOL' = r.cell
                /\ pc' = IF is_hnsw_index_loaded(hnsw) THEN "fetch" ELSE "linear"
                /\ UNCHANGED <<resp, seen>>
           ELSE SearchFails(r.error) /\ UNCHANGED DB_POOL
    /\ UNCHANGED <<foreign_keys, assigned, sources, chunks, docs, bm25, hnsw, buffer>>

\* the linear scan or the row fetch ends; the call returns and conn drops
ChunksReturn ==
    /\ pc \in {"fetch", "linear"}
    /\ \E r \in search_chunks(sources, chunks, hnsw, seen.args.query_embedding,
                              seen.args.top_k).results :
          resp' = [op |-> seen.op, args |-> seen.args, ok |-> TRUE, error |-> "none",
                   results |-> r]
    /\ DB_POOL' = PooledConnectionDrop(DB_POOL)
    /\ pc' = "idle"
    /\ seen' = Idle
    /\ UNCHANGED <<foreign_keys, assigned, sources, chunks, docs, bm25, hnsw, buffer>>

ConnectionArgs ==
    {[query_text |-> TxtAp, query_embedding |-> <<1, 0>>, top_k |-> k,
      config |-> DefaultConfig, filter |-> f] :
        k \in 1..MaxTopK,
        f \in {None, SearchFilter(Some(<<1>>), None), SearchFilter(None, Some(<<"%", "k">>))}}

\* the host makes one call at a time; a Store operation takes its one
\* connection for the length of the call
NextConnections ==
    \/ pc = "idle" /\ resp = Idle /\ \E n \in 1..MaxPoolSize, f \in BOOLEAN :
                                        InitDbPool("a.sqlite", n, f)
    \/ pc = "idle" /\ resp = Idle /\ CloseDbPool
    \/ pc = "idle" /\ resp = Idle /\ get_connection(DB_POOL).ok
          /\ \E s \in SourceRows : AddSource(s.content, s.metadata)
    \/ pc = "idle" /\ resp = Idle /\ get_connection(DB_POOL).ok
          /\ Len(chunks) < MaxSearchChunks /\ \E c \in ChunkInputs : AddChunks(1, <<c>>, 0)
    \/ pc = "idle" /\ resp = Idle /\ \E id \in 1..MaxChunkId : Bm25AddChunk(id)
    \/ pc = "idle" /\ resp = Idle /\ ClearHnswIndex
    \/ resp = Idle /\ \E a \in ConnectionArgs : HybridWorkers(a)
    \/ HybridEnterFilter
    \/ HybridLeaveFilter
    \/ HybridRank
    \/ HybridHydrate
    \/ resp = Idle /\ \E k \in 1..MaxTopK : ChunksStart(<<1, 0>>, k)
    \/ ChunksRebuilt
    \/ ChunksTakeConnection
    \/ ChunksReturn
    \/ Return

SpecConnections == Init /\ [][NextConnections]_vars

\* C27: a search_hybrid or search_chunks call running alone has at most one
\* pooled connection out at any time and none when it has returned, so no
\* get_connection() of the call ends in a timeout, also on a pool of
\* max_size 1.
C27_OneConnectionAtATime ==
    /\ Held(DB_POOL) <= 1
    /\ pc = "idle" => Held(DB_POOL) = 0
    /\ resp # Idle /\ resp.op \in {"search_hybrid", "search_chunks"} => resp.error # "timeout"

\* on a pool of max_size 1, a search_hybrid call with a source filter has
\* taken a connection for the scan and another for the content it returned
C27_Witness ==
    /\ is_pool_initialized(DB_POOL)
    /\ DB_POOL[1][1].max_size = 1
    /\ resp.op = "search_hybrid"
    /\ resp.ok
    /\ HasSourceFilter(resp.args.filter)
    /\ resp.results # <<>>

-----------------------------------------------------------------------------
(* A build of the ANN graph concurrent with a search.                      *)

\* HNSW_INDEX: RwLock<Option<Hnsw>>. The lock: the number of read guards out
\* and whether the write guard is out.
LockFree == [readers |-> 0, writer |-> FALSE]

\* a build that inserts into the graph the searches read
IndexBuiltInPlace(index, local) == Some(local)

\* the value of HNSW_INDEX while build_hnsw_index inserts its points:
\* Hnsw::new makes a graph of its own, the global one is not touched
IndexWhileConstructing(index, local) == index

\* one thread builds, one searches; this specification starts with both idle
InitLock ==
    /\ foreign_keys = FALSE
    /\ assigned = None
    /\ DB_POOL = <<>>
    /\ sources = <<>>
    /\ chunks = <<>>
    /\ docs = <<>>
    /\ bm25 = EmptyIndex
    /\ hnsw = None
    /\ buffer = <<>>
    /\ resp = Idle
    /\ pc = [build |-> "idle", search |-> "idle"]
    /\ seen = [lock |-> LockFree, points |-> <<>>, local |-> <<>>, prev |-> None,
               guard |-> None, overlapped |-> FALSE]

\* build_hnsw_index is called: Ok(()) at once for no points, else Hnsw::new
BuildBegin(points) ==
    /\ pc.build = "idle"
    /\ IF points = <<>>
       THEN UNCHANGED <<pc, seen>>
       ELSE /\ pc' = [pc EXCEPT !.build = "constructing"]
            /\ seen' = [seen EXCEPT !.points = points, !.local = <<>>, !.prev = hnsw]
    /\ UNCHANGED <<foreign_keys, assigned, DB_POOL, sources, chunks, docs, bm25, hnsw, buffer, resp>>

\* hnsw.insert of the next point, in the loop over points
BuildInsert ==
    /\ pc.build = "constructing"
    /\ Len(seen.local) < Len(seen.points)
    /\ LET local == Append(seen.local, seen.points[Len(seen.local) + 1])
       IN  /\ seen' = [seen EXCEPT !.local = local]
           /\ hnsw' = IndexWhileConstructing(hnsw, local)
    /\ UNCHANGED <<foreign_keys, assigned, DB_POOL, sources, chunks, docs, bm25, buffer, resp, pc>>

\* HNSW_INDEX.write(): waits until no guard is out
BuildWriteLock ==
    /\ pc.build = "constructing"
    /\ Len(seen.local) = Len(seen.points)
    /\ seen.lock = LockFree
    /\ seen' = [seen EXCEPT !.lock.writer = TRUE]
    /\ pc' = [pc EXCEPT !.build = "swap"]
    /\ UNCHANGED <<foreign_keys, assigned, DB_POOL, sources, chunks, docs, bm25, hnsw, buffer, resp>>

\* *index_guard = Some(hnsw); the guard drops when the call returns
BuildSwap ==
    /\ pc.build = "swap"
    /\ hnsw' = build_hnsw_index(hnsw, seen.local)
    /\ seen' = [seen EXCEPT !.lock.writer = FALSE, !.points = <<>>, !.local = <<>>,
                            !.prev = None]
    /\ pc' = [pc EXCEPT !.build = "idle"]
    /\ UNCHANGED <<foreign_keys, assigned, DB_POOL, sources, chunks, docs, bm25, buffer, resp>>

\* search_hnsw: HNSW_INDEX.read(), which waits while the write guard is out
SearchReadLock ==
    /\ pc.search = "idle"
    /\ resp = Idle
    /\ ~seen.lock.writer
    /\ seen' = [seen EXCEPT !.lock.readers = @ + 1, !.guard = hnsw,
                            !.overlapped = (pc.build = "constructing")]
    /\ pc' = [pc EXCEPT !.search = "reading"]
    /\ UNCHANGED <<foreign_keys, assigned, DB_POOL, sources, chunks, docs, bm25, hnsw, buffer, resp>>

\* search_hnsw: index.search under the read guard, then the guard drops. The
\* value records the graph that was read and the graph the running build
\* started from, when a build was constructing as the search began.
SearchUnderGuard(query_embedding, top_k) ==
    /\ pc.search = "reading"
    /\ \E r \in search_hnsw(hnsw, query_embedding, top_k) :
          resp' = [op |-> "search_hnsw", query_embedding |-> query_embedding,
                   top_k |-> top_k, ok |-> r.ok, ids |-> r.ids, graph |-> hnsw,
                   locked |-> seen.guard, overlapped |-> seen.overlapped,
                   previous |-> IF seen.overlapped THEN seen.prev ELSE hnsw]
    /\ seen' = [seen EXCEPT !.lock.readers = @ - 1, !.guard = None, !.overlapped = FALSE]
    /\ pc' = [pc EXCEPT !.search = "idle"]
    /\ UNCHANGED <<foreign_keys, assigned, DB_POOL, sources, chunks, docs, bm25, hnsw, buffer>>

\* the searching thread takes the value of its call
SearchReturn ==
    /\ resp # Idle
    /\ resp' = Idle
    /\ UNCHANGED <<foreign_keys, assigned, DB_POOL, sources, chunks, docs, bm25, hnsw, buffer, pc, seen>>

NextLock ==
    \/ \E points \in GraphPointLists \cup {<<>>} : BuildBegin(points)
    \/ BuildInsert
    \/ BuildWriteLock
    \/ BuildSwap
    \/ SearchReadLock
    \/ \E q \in QueryEmbeddings, k \in 1..MaxTopK : SearchUnderGuard(q, k)
    \/ SearchReturn

SpecLock == InitLock /\ [][NextLock]_vars

\* the graphs a finished build can have stored
CompleteGraphs == {None} \cup {Some(points) : points \in GraphPointLists}

\* C28: the write guard is out only in the swap, so a search can take its
\* read guard while a build constructs; the graph a search reads is the one
\* it locked, a complete graph (never a part of the points of a build), and
\* for a search that began while a build was constructing and ended before
\* the swap it is the graph from before that build.
C28_SearchSeesCompleteGraph ==
    /\ seen.lock.writer <=> pc.build = "swap"
    /\ pc.search = "reading" => hnsw = seen.guard /\ hnsw \in CompleteGraphs
    /\ resp # Idle =>
          /\ resp.graph = resp.locked
          /\ resp.graph \in CompleteGraphs
          /\ resp.overlapped => resp.graph = resp.previous

\* a search began and ended while a build had inserted a part of its points,
\* and read the loaded graph of before
C28_Witness ==
    /\ resp # Idle
    /\ resp.overlapped
    /\ pc.build = "constructing"
    /\ seen.local # <<>>
    /\ Len(seen.local) < Len(seen.points)
    /\ resp.graph # None
    /\ resp.ids # <<>>

-----------------------------------------------------------------------------
(* The Markdown chunker. A string is kept as the sequence of its lines     *)
(* (str::lines), a line as the sequence of its characters.                 *)

\* str::len of the string whose lines these are, joined by "\n"
StrLen(lines) ==
    LET sum[k \in 0..Len(lines)] == IF k = 0 THEN 0 ELSE sum[k - 1] + Len(lines[k])
    IN  IF lines = <<>> THEN 0 ELSE sum[Len(lines)] + Len(lines) - 1

IsBlank(line) == \A i \in 1..Len(line) : line[i] = " "

TrimStart(line) ==
    IF IsBlank(line) THEN <<>>
    ELSE SubSeq(line, CHOOSE k \in 1..Len(line) :
                        line[k] # " " /\ \A j \in 1..(k - 1) : line[j] = " ", Len(line))

TrimEnd(line) ==
    IF IsBlank(line) THEN <<>>
    ELSE SubSeq(line, 1, CHOOSE k \in 1..Len(line) :
                        line[k] # " " /\ \A j \in (k + 1)..Len(line) : line[j] = " ")

\* str::trim of one line
TrimLine(line) == TrimEnd(TrimStart(line))

StartsWith(line, prefix) ==
    Len(line) >= Len(prefix) /\ SubSeq(line, 1, Len(prefix)) = prefix

\* str::trim().is_empty() of a string of several lines
AllBlank(lines) == \A i \in 1..Len(lines) : IsBlank(lines[i])

\* str::trim of a string of several lines: the blank lines at both ends go
\* with the newlines, then the white space before the first and after the
\* last character
TrimText(lines) ==
    IF AllBlank(lines) THEN <<>>
    ELSE LET first == CHOOSE k \in 1..Len(lines) :
                        ~IsBlank(lines[k]) /\ \A j \in 1..(k - 1) : IsBlank(lines[j])
             last == CHOOSE k \in 1..Len(lines) :
                        ~IsBlank(lines[k]) /\ \A j \in (k + 1)..Len(lines) : IsBlank(lines[j])
             mid == SubSeq(lines, first, last)
         IN  [i \in 1..Len(mid) |->
                LET a == IF i = 1 THEN TrimStart(mid[i]) ELSE mid[i]
                IN  IF i = Len(mid) THEN TrimEnd(a) ELSE a]

\* the grave accent, U+0060
Backtick == "U+0060"

Fence == <<Backtick, Backtick, Backtick>>

\* trim_start_matches on one character
RECURSIVE TrimStartMatches(_, _)
TrimStartMatches(line, c) ==
    IF line # <<>> /\ Head(line) = c THEN TrimStartMatches(Tail(line), c) ELSE line

\* the language of a code block, from its first line
CodeLanguage(first_line) ==
    LET trimmed == TrimStartMatches(TrimLine(first_line), Backtick)
    IN  IF trimmed = <<>> THEN None ELSE Some(trimmed)

\* whether the trimmed line starts with and ends with a vertical bar
IsTableLine(line) ==
    LET t == TrimLine(line)
    IN  t # <<>> /\ t[1] = "|" /\ t[Len(t)] = "|"

\* the level and the text of a header line
HeaderOf(line) ==
    LET rest == TrimStartMatches(line, "#")
    IN  [level |-> Len(line) - Len(rest), text |-> TrimLine(rest)]

Section(header, content, is_code_block, is_table, code_language) ==
    [header |-> header, content |-> content, is_code_block |-> is_code_block,
     is_table |-> is_table, code_language |-> code_language]

\* "save current content first": a section of the prose gathered so far,
\* when it is not blank; it takes the current header with it
FlushCurrent(st) ==
    IF AllBlank(st.current_content) THEN st
    ELSE [st EXCEPT !.sections = Append(@, Section(st.current_header, st.current_content,
                                                  FALSE, FALSE, None)),
                    !.current_header = None,
                    !.current_content = <<>>]

\* the body of the loop of split_by_headers for one line
HeaderStep(st, line) ==
    IF StartsWith(TrimLine(line), Fence)
    THEN IF st.in_code_block
         THEN LET block == Append(st.code_block_content, line)
              IN  [st EXCEPT !.sections = Append(@, Section(None, block, TRUE, FALSE,
                                                           CodeLanguage(block[1]))),
                             !.code_block_content = <<>>,
                             !.in_code_block = FALSE]
         ELSE [FlushCurrent(st) EXCEPT !.in_code_block = TRUE,
                                       !.code_block_content = Append(@, line)]
    ELSE IF st.in_code_block
    THEN [st EXCEPT !.code_block_content = Append(@, line)]
    ELSE IF IsTableLine(line)
    THEN [(IF st.in_table THEN st ELSE FlushCurrent(st))
            EXCEPT !.in_table = TRUE, !.table_content = Append(@, line)]
    ELSE LET st1 == IF st.in_table
                    THEN [st EXCEPT !.sections = Append(@, Section(None, st.table_content,
                                                                  FALSE, TRUE, None)),
                                    !.table_content = <<>>,
                                    !.in_table = FALSE]
                    ELSE st
         IN  IF line # <<>> /\ Head(line) = "#"
             THEN [FlushCurrent(st1) EXCEPT !.current_header = Some(HeaderOf(line)),
                                            !.current_content = Append(@, line)]
             ELSE [st1 EXCEPT !.current_content = Append(@, line)]

\* split_by_headers: the sections of a text, given as its lines
split_by_headers(text) ==
    LET start == [sections |-> <<>>, current_content |-> <<>>, current_header |-> None,
                  in_code_block |-> FALSE, code_block_content |-> <<>>,
                  in_table |-> FALSE, table_content |-> <<>>]
        loop[k \in 0..Len(text)] == IF k = 0 THEN start ELSE HeaderStep(loop[k - 1], text[k])
        end == loop[Len(text)]
        with_table == IF end.in_table /\ ~AllBlank(end.table_content)
                      THEN Append(end.sections,
                                  Section(None, end.table_content, FALSE, TRUE, None))
                      ELSE end.sections
    IN  IF AllBlank(end.current_content) THEN with_table
        ELSE Append(with_table,
                    Section(end.current_header, end.current_content, FALSE, FALSE, None))

\* TextSplitter::new(max_chars).chunks(line), trimmed and without the empty
\* pieces, for a line that fits (the chunker hands it longer lines only)
TextSplitterChunks(line, max_chars) ==
    CASE Len(line) <= max_chars -> IF IsBlank(line) THEN <<>> ELSE <<<<TrimLine(line)>>>>

\* split_by_lines: whole lines gathered into chunks of at most max_chars
split_by_lines(text, max_chars) ==
    LET step(st, line) ==
            LET needed == IF st.buffer = <<>> THEN Len(line)
                          ELSE StrLen(st.buffer) + 1 + Len(line)
            IN  IF needed <= max_chars
                THEN [st EXCEPT !.buffer = IF st.buffer = <<>>
                                           THEN (IF line = <<>> THEN <<>> ELSE <<line>>)
                                           ELSE Append(st.buffer, line)]
                ELSE LET flushed == IF st.buffer = <<>> THEN st.chunks
                                    ELSE Append(st.chunks, st.buffer)
                     IN  IF Len(line) <= max_chars
                         THEN [chunks |-> flushed, buffer |-> <<line>>]
                         ELSE [chunks |-> flushed \o TextSplitterChunks(line, max_chars),
                               buffer |-> <<>>]
        loop[k \in 0..Len(text)] ==
            IF k = 0 THEN [chunks |-> <<>>, buffer |-> <<>>] ELSE step(loop[k - 1], text[k])
        end == loop[Len(text)]
    IN  IF end.buffer = <<>> THEN end.chunks ELSE Append(end.chunks, end.buffer)

\* split_table_preserving_headers: the first two lines open every chunk; a
\* table of fewer than three lines is split by lines
split_table_preserving_headers(table_content, max_chars) ==
    IF Len(table_content) < 3 THEN split_by_lines(table_content, max_chars)
    ELSE LET header_rows == SubSeq(table_content, 1, 2)
             step(st, line) ==
                IF StrLen(st.current_chunk) + 1 + Len(line) <= max_chars
                THEN [st EXCEPT !.current_chunk = Append(@, line)]
                ELSE [chunks |-> Append(st.chunks, st.current_chunk),
                      current_chunk |-> Append(header_rows, line)]
             loop[k \in 2..Len(table_content)] ==
                IF k = 2 THEN [chunks |-> <<>>, current_chunk |-> header_rows]
                ELSE step(loop[k - 1], table_content[k])
             end == loop[Len(table_content)]
         IN  IF end.current_chunk # header_rows
             THEN Append(end.chunks, end.current_chunk)
             ELSE end.chunks

\* recursive_split of a section of prose, for the sections the documents of
\* the model hold: markdown_chunk calls it for prose longer than max_chars
\* only, and the prose of these documents is shorter
recursive_split(text, max_chars) ==
    CASE StrLen(text) <= max_chars -> <<text>>

\* max_chars.max(100)
MinMaxChars == 100

\* the element of a set of one element
Only(S) == CHOOSE x \in S : TRUE

ChunkType(kind, language) == [kind |-> kind, language |-> language]

RECURSIVE JoinPath(_)
\* .join(" > ") of the header texts
JoinPath(texts) ==
    IF texts = <<>> THEN <<>>
    ELSE IF Len(texts) = 1 THEN texts[1]
    ELSE texts[1] \o <<" ", ">", " ">> \o JoinPath(Tail(texts))

RECURSIVE PopHeadersAbove(_, _)
\* a pop that leaves a stacked header of the same level
PopHeadersAbove(header_stack, level) ==
    IF header_stack # <<>> /\ header_stack[Len(header_stack)].level > level
    THEN PopHeadersAbove(SubSeq(header_stack, 1, Len(header_stack) - 1), level)
    ELSE header_stack

\* the header stack after the header of a section was pushed
RECURSIVE PopHeaders(_, _)
PopHeaders(header_stack, level) ==
    IF header_stack # <<>> /\ header_stack[Len(header_stack)].level >= level
    THEN PopHeaders(SubSeq(header_stack, 1, Len(header_stack) - 1), level)
    ELSE header_stack

\* the body of the loop of markdown_chunk for section number s. origin keeps,
\* for every chunk, the number of the section it came from; uuids counts the
\* batch ids generated so far (Uuid::new_v4 gives a new one every time);
\* stacks keeps the header stack every section was chunked with.
ChunkSection(acc, section, s, max_chars_usize) ==
    LET header_stack == IF IsSome(section.header)
                        THEN Append(PopHeaders(acc.header_stack, section.header[1].level),
                                    section.header[1])
                        ELSE acc.header_stack
        header_path == JoinPath([i \in 1..Len(header_stack) |-> header_stack[i].text])
        content == TrimText(section.content)
        chunk_type ==
            IF section.is_code_block
            THEN ChunkType("code", section.code_language)
            ELSE IF section.is_table THEN ChunkType("table", None)
            ELSE IF IsSome(section.header) /\ Len(content) <= 2 THEN ChunkType("header", None)
            ELSE ChunkType("text", None)
        sub_chunks ==
            IF section.is_table THEN split_table_preserving_headers(content, max_chars_usize)
            ELSE IF section.is_code_block THEN split_by_lines(content, max_chars_usize)
            ELSE recursive_split(content, max_chars_usize)
        linked == section.is_code_block /\ Len(sub_chunks) > 1
        batch_id == IF linked THEN Some(acc.uuids + 1) ELSE None
        sub_type == IF section.is_code_block \/ section.is_table THEN chunk_type
                    ELSE ChunkType("text", None)
        start[i \in 1..(Len(sub_chunks) + 1)] ==
            IF i = 1 THEN acc.current_pos ELSE start[i - 1] + StrLen(sub_chunks[i - 1]) + 1
    IN  IF content = <<>> THEN [acc EXCEPT !.header_stack = header_stack, !.stacks = Append(@, header_stack)]
        ELSE IF StrLen(content) <= max_chars_usize
        THEN [acc EXCEPT
                !.header_stack = header_stack,
                !.stacks = Append(@, header_stack),
                !.chunks = Append(@, [index |-> acc.chunk_index, content |-> content,
                                      header_path |-> header_path, chunk_type |-> chunk_type,
                                      start_pos |-> acc.current_pos,
                                      end_pos |-> acc.current_pos + StrLen(content),
                                      batch_id |-> None, batch_index |-> None,
                                      batch_total |-> None]),
                !.origin = Append(@, s),
                !.chunk_index = @ + 1,
                !.current_pos = @ + StrLen(content) + 1]
        ELSE [acc EXCEPT
                !.header_stack = header_stack,
                !.stacks = Append(@, header_stack),
                !.chunks = @ \o [i \in 1..Len(sub_chunks) |->
                    [index |-> acc.chunk_index + i - 1, content |-> sub_chunks[i],
                     header_path |-> header_path, chunk_type |-> sub_type,
                     start_pos |-> start[i],
                     end_pos |-> start[i] + StrLen(sub_chunks[i]),
                     batch_id |-> batch_id,
                     batch_index |-> IF linked THEN Some(i - 1) ELSE None,
                     batch_total |-> IF linked THEN Some(Len(sub_chunks)) ELSE None]],
                !.origin = @ \o [i \in 1..Len(sub_chunks) |-> s],
                !.chunk_index = @ + Len(sub_chunks),
                !.current_pos = start[Len(sub_chunks) + 1],
                !.uuids = IF linked THEN @ + 1 ELSE @]

\* markdown_chunk: the chunks of a text, with the sections of the text and
\* the section every chunk came from
markdown_chunk(text, max_chars) ==
    LET max_chars_usize == IF max_chars > MinMaxChars THEN max_chars ELSE MinMaxChars
        sections == split_by_headers(text)
        loop[s \in 0..Len(sections)] ==
            IF s = 0
            THEN [chunks |-> <<>>, origin |-> <<>>, current_pos |-> 0, chunk_index |-> 0,
                  header_stack |-> <<>>, uuids |-> 0, stacks |-> <<>>]
            ELSE Only({ChunkSection(acc, sections[s], s, max_chars_usize) :
                          acc \in {loop[s - 1]}})
    IN  Only({[chunks |-> end.chunks, origin |-> end.origin, sections |-> sections,
               stacks |-> end.stacks] : end \in {loop[Len(sections)]}})

MarkdownChunk(text, max_chars) ==
    \E out \in {markdown_chunk(text, max_chars)} :
        /\ resp' = [op |-> "markdown_chunk", text |-> text, max_chars |-> max_chars,
                    chunks |-> out.chunks, origin |-> out.origin, sections |-> out.sections,
                    stacks |-> out.stacks]
        /\ UNCHANGED <<foreign_keys, assigned, DB_POOL, sources, chunks, docs, bm25, hnsw, buffer, pc, seen>>

\* the documents: an optional header with a line of prose, then two blocks
\* (a fenced code block, a table, or nothing) with an empty line between
Fill(n, c) == [i \in 1..n |-> c]

Letters == <<"a", "b", "c", "d", "e", "f", "g">>

NarrowLine == 15
WideLine == 60
MaxBodyLines == 6
MaxRows == 6

LineWidths == {NarrowLine, WideLine}

CodeBlock(language, n, width) ==
    <<Fence \o language>> \o [i \in 1..n |-> Fill(width, Letters[i])] \o <<Fence>>

TableRow(width, c) == <<"|">> \o Fill(width - 2, c) \o <<"|">>

Table(rows, width) ==
    <<TableRow(width, "h"), TableRow(width, "-")>>
        \o [i \in 1..rows |-> TableRow(width, Letters[i])]

Blocks ==
    {<<>>}
    \cup {CodeBlock(l, n, w) : l \in {<<>>, <<"r", "s">>}, n \in {1, MaxBodyLines},
                               w \in LineWidths}
    \cup {Table(r, w) : r \in {0, 1, MaxRows}, w \in LineWidths}

Prefixes == {<<>>, <<<<"#", " ", "T">>, <<"p", "r", "o", "s", "e", ".">>>>}

Documents == {p \o b1 \o << <<>> >> \o b2 : p \in Prefixes, b1 \in Blocks, b2 \in Blocks}

MaxCharsInputs == {50, MinMaxChars, 2 * WideLine}

NextChunker ==
    \/ resp = Idle /\ \E text \in Documents, max_chars \in MaxCharsInputs :
                         MarkdownChunk(text, max_chars)
    \/ Return

SpecChunker == Init /\ [][NextChunker]_vars

\* the chunks of a call that came from section s, in the order of emission
FragmentsOf(s) ==
    LET idx == {i \in 1..Len(resp.chunks) : resp.origin[i] = s}
    IN  [k \in 1..Cardinality(idx) |->
            resp.chunks[CHOOSE i \in idx : Cardinality({j \in idx : j <= i}) = k]]

\* C29: when markdown_chunk splits a code block or a table into 2 or more
\* chunks, its fragments carry one batch_id, batch_total is their number and
\* batch_index runs 0, 1, ... in the order of emission.
C29_FragmentsAreLinked ==
    resp.op = "markdown_chunk" =>
        \A s \in 1..Len(resp.sections) :
            LET f == FragmentsOf(s)
            IN  ((resp.sections[s].is_code_block \/ resp.sections[s].is_table) /\ Len(f) >= 2)
                    => \A k \in 1..Len(f) :
                          /\ IsSome(f[k].batch_id)
                          /\ f[k].batch_id = f[1].batch_id
                          /\ f[k].batch_total = Some(Len(f))
                          /\ f[k].batch_index = Some(k - 1)

\* C29 for code blocks alone
C29_CodeFragmentsAreLinked ==
    resp.op = "markdown_chunk" =>
        \A s \in 1..Len(resp.sections) :
            LET f == FragmentsOf(s)
            IN  (resp.sections[s].is_code_block /\ Len(f) >= 2)
                    => \A k \in 1..Len(f) :
                          /\ IsSome(f[k].batch_id)
                          /\ f[k].batch_id = f[1].batch_id
                          /\ f[k].batch_total = Some(Len(f))
                          /\ f[k].batch_index = Some(k - 1)

\* C30: every chunk of type table begins with the header line and the
\* separator line of its table.
C30_TableChunksBeginWithHeader ==
    resp.op = "markdown_chunk" =>
        \A i \in 1..Len(resp.chunks) :
            resp.chunks[i].chunk_type.kind = "table" =>
                LET table == TrimText(resp.sections[resp.origin[i]].content)
                IN  Len(table) >= 2 =>
                        /\ Len(resp.chunks[i].content) >= 2
                        /\ SubSeq(resp.chunks[i].content, 1, 2) = SubSeq(table, 1, 2)

\* C30 for the tables with at least one row under the separator
C30_TablesWithRows ==
    resp.op = "markdown_chunk" =>
        \A i \in 1..Len(resp.chunks) :
            resp.chunks[i].chunk_type.kind = "table" =>
                LET table == TrimText(resp.sections[resp.origin[i]].content)
                IN  Len(table) >= 3 =>
                        /\ Len(resp.chunks[i].content) >= 2
                        /\ SubSeq(resp.chunks[i].content, 1, 2) = SubSeq(table, 1, 2)

-----------------------------------------------------------------------------
(* Text compression. A text is the sequence of its characters (chars()).   *)

\* the ideographic full stop, U+3002, three bytes in UTF-8
IdeographicFullStop == "U+3002"

\* char::len_utf8
LenUtf8(c) == IF c = IdeographicFullStop THEN 3 ELSE 1

\* str::len: the number of bytes
RECURSIVE ByteLen(_)
ByteLen(s) == IF s = <<>> THEN 0 ELSE LenUtf8(Head(s)) + ByteLen(Tail(s))

\* the closure of split_sentences and of the truncation: . ? ! and U+3002
IsTerminal(c) == c \in {".", "?", "!", IdeographicFullStop}

\* split_sentences: the text is cut after every terminal mark; a piece is
\* kept trimmed when it is longer than one byte, the rest after the last
\* mark when it is not blank
split_sentences(text) ==
    LET step(st, ch) ==
            LET current == Append(st.current, ch)
                trimmed == TrimLine(current)
            IN  IF IsTerminal(ch)
                THEN [sentences |-> IF trimmed # <<>> /\ ByteLen(trimmed) > 1
                                    THEN Append(st.sentences, trimmed)
                                    ELSE st.sentences,
                      current |-> <<>>]
                ELSE [st EXCEPT !.current = current]
        loop[k \in 0..Len(text)] ==
            IF k = 0 THEN [sentences |-> <<>>, current |-> <<>>]
            ELSE step(loop[k - 1], text[k])
        end == loop[Len(text)]
        trimmed == TrimLine(end.current)
    IN  IF trimmed # <<>> THEN Append(end.sentences, trimmed) ELSE end.sentences

\* split_whitespace().join(" ")
RECURSIVE CollapseWhitespace(_, _)
CollapseWhitespace(s, pending) ==
    IF s = <<>> THEN <<>>
    ELSE IF Head(s) = " " THEN CollapseWhitespace(Tail(s), TRUE)
    ELSE (IF pending THEN <<" ">> ELSE <<>>) \o <<Head(s)>> \o CollapseWhitespace(Tail(s), FALSE)

\* sentence_hash: FNV-1a over the bytes of the sentence in lower case with
\* its white space collapsed; free of collisions on the texts used here
sentence_hash(sentence) ==
    <<"fnv1a">> \o CollapseWhitespace(TrimLine(ToLowercase(sentence)), FALSE)

\* step 2 of compress_text: the first sentence of every hash
DedupByHash(sentences) ==
    LET keep == {i \in 1..Len(sentences) :
                    \A j \in 1..(i - 1) : sentence_hash(sentences[j]) # sentence_hash(sentences[i])}
        pick[k \in 0..Len(sentences)] ==
            IF k = 0 THEN <<>>
            ELSE IF k \in keep THEN Append(pick[k - 1], sentences[k]) ELSE pick[k - 1]
    IN  pick[Len(sentences)]

\* a step 2 that removes nothing
DedupNothing(sentences) == sentences

\* join(" ")
RECURSIVE JoinSpace(_)
JoinSpace(sentences) ==
    IF sentences = <<>> THEN <<>>
    ELSE IF Len(sentences) = 1 THEN sentences[1]
    ELSE sentences[1] \o <<" ">> \o JoinSpace(Tail(sentences))

\* step 4 of compress_text on a result longer than max_chars: the first
\* max_chars characters; then rfind of a terminal mark gives the byte
\* position pos of the last one, and result[..=pos] is taken, which panics
\* when pos + 1 is not a character boundary, that is when the mark is longer
\* than one byte
Truncate(result, max_chars) ==
    LET taken == Take(result, max_chars)
        marks == {i \in 1..Len(taken) : IsTerminal(taken[i])}
        last == CHOOSE i \in marks : \A j \in marks : j <= i
    IN  IF marks = {} THEN [panicked |-> FALSE, text |-> taken]
        ELSE IF LenUtf8(taken[last]) > 1 THEN [panicked |-> TRUE, text |-> <<>>]
        ELSE [panicked |-> FALSE, text |-> SubSeq(taken, 1, last)]

\* compress_text: the CompressedText it returns, or the panic of the slice
compress_text(text, max_chars, options) ==
    IF text = <<>>
    THEN [panicked |-> FALSE, text |-> <<>>, original_chars |-> 0, compressed_chars |-> 0,
          ratio |-> [num |-> 1, den |-> 1], sentences_removed |-> 0,
          chars_saved_stopwords |-> 0, chars_saved_truncation |-> 0]
    ELSE LET sentences == split_sentences(text)
             unique_sentences == IF options.remove_duplicates THEN DedupByHash(sentences)
                                 ELSE sentences
             joined == JoinSpace(unique_sentences)
             cut == IF max_chars > 0 /\ Len(joined) > max_chars
                    THEN Truncate(joined, max_chars)
                    ELSE [panicked |-> FALSE, text |-> joined]
         IN  [panicked |-> cut.panicked, text |-> cut.text,
              original_chars |-> Len(text), compressed_chars |-> Len(cut.text),
              ratio |-> [num |-> Len(cut.text), den |-> Len(text)],
              sentences_removed |-> Len(sentences) - Len(unique_sentences),
              chars_saved_stopwords |-> 0,
              chars_saved_truncation |-> Len(joined) - Len(cut.text)]

CompressText(text, max_chars, options) ==
    /\ resp' = [op |-> "compress_text", text |-> text, max_chars |-> max_chars,
                options |-> options, result |-> compress_text(text, max_chars, options)]
    /\ UNCHANGED <<foreign_keys, assigned, DB_POOL, sources, chunks, docs, bm25, hnsw, buffer, pc, seen>>

MaxTextLen == 5
MaxMaxChars == 3

CompressionChars == {"a", "A", " ", ".", IdeographicFullStop}

CompressionTexts == UNION {[1..n -> CompressionChars] : n \in 0..MaxTextLen}

CompressionOptions(remove_duplicates) ==
    [remove_stopwords |-> TRUE, remove_duplicates |-> remove_duplicates,
     language |-> "en", level |-> 1]

NextCompression ==
    \/ resp = Idle /\ \E text \in CompressionTexts, max_chars \in 0..MaxMaxChars,
                         d \in BOOLEAN : CompressText(text, max_chars, CompressionOptions(d))
    \/ Return

SpecCompression == Init /\ [][NextCompression]_vars

\* C31: compress_text is idempotent: compressing the text of a result again
\* with the same max_chars and options returns the same text and removes no
\* sentence.
C31_CompressIdempotent ==
    (resp.op = "compress_text" /\ ~resp.result.panicked) =>
        LET again == compress_text(resp.result.text, resp.max_chars, resp.options)
        IN  /\ ~again.panicked
            /\ again.text = resp.result.text
            /\ again.sentences_removed = 0

\* C31 without a limit on the length: max_chars = 0
C31_IdempotentWithoutLimit ==
    (resp.op = "compress_text" /\ ~resp.result.panicked /\ resp.max_chars = 0) =>
        LET again == compress_text(resp.result.text, resp.max_chars, resp.options)
        IN  /\ ~again.panicked
            /\ again.text = resp.result.text
            /\ again.sentences_removed = 0

\* C32: for max_chars > 0 compress_text returns normally, with
\* compressed_chars <= max_chars.
C32_CompressWithinLimit ==
    (resp.op = "compress_text" /\ resp.max_chars > 0) =>
        /\ ~resp.result.panicked
        /\ resp.result.compressed_chars <= resp.max_chars

\* C32 for the calls that return
C32_WithinLimitWhenReturned ==
    (resp.op = "compress_text" /\ resp.max_chars > 0 /\ ~resp.result.panicked) =>
        resp.result.compressed_chars <= resp.max_chars

-----------------------------------------------------------------------------
(* Slash commands.                                                         *)

CmdSummary == <<"/", "s", "u", "m", "m", "a", "r", "y">>
CmdDefine == <<"/", "d", "e", "f", "i", "n", "e">>
CmdMore == <<"/", "m", "o", "r", "e">>

\* splitn(2, ' '): the part before the first space
FirstPart(s) ==
    IF \E i \in 1..Len(s) : s[i] = " "
    THEN SubSeq(s, 1, (CHOOSE i \in 1..Len(s) :
                          s[i] = " " /\ \A j \in 1..(i - 1) : s[j] # " ") - 1)
    ELSE s

\* splitn(2, ' '): the part after the first space, trimmed; "" without one
SecondPart(s) ==
    IF \E i \in 1..Len(s) : s[i] = " "
    THEN TrimLine(SubSeq(s, (CHOOSE i \in 1..Len(s) :
                                s[i] = " " /\ \A j \in 1..(i - 1) : s[j] # " ") + 1, Len(s)))
    ELSE <<>>

InvalidCommand(command, reason) == [variant |-> "InvalidCommand", query |-> command, reason |-> reason]

\* a "/define" arm that accepts an empty term
DefineArmAnyTerm(command, argument) == [variant |-> "Define", query |-> argument, reason |-> <<>>]

\* the "/define" arm of the match
DefineArm(command, argument) ==
    IF argument = <<>>
    THEN InvalidCommand(command, <<"Term required for /define. Usage: /define <term>">>)
    ELSE [variant |-> "Define", query |-> argument, reason |-> <<>>]

\* parse_user_intent: the UserIntent of an input, with the query, term or
\* command it carries
parse_user_intent(input) ==
    LET trimmed == TrimLine(input)
        command == ToLowercase(FirstPart(trimmed))
        argument == SecondPart(trimmed)
    IN  IF trimmed = <<>> THEN InvalidCommand(<<>>, <<"Empty input">>)
        ELSE IF trimmed[1] # "/"
        THEN [variant |-> "General", query |-> trimmed, reason |-> <<>>]
        ELSE IF command = CmdSummary
        THEN [variant |-> "Summary", query |-> argument, reason |-> <<>>]
        ELSE IF command = CmdDefine THEN DefineArm(command, argument)
        ELSE IF command = CmdMore
        THEN [variant |-> "ExpandKnowledge", query |-> argument, reason |-> <<>>]
        ELSE InvalidCommand(command, <<"Unknown command '", command,
                                       "'. Available: /summary, /define, /more">>)

\* parse_intent: the ParsedIntent of an input
parse_intent(input) ==
    LET intent == parse_user_intent(input)
    IN  [intent_type |-> CASE intent.variant = "Summary" -> "summary"
                           [] intent.variant = "Define" -> "define"
                           [] intent.variant = "ExpandKnowledge" -> "more"
                           [] intent.variant = "General" -> "general"
                           [] intent.variant = "InvalidCommand" -> "invalid",
         query |-> intent.query,
         is_valid |-> intent.variant # "InvalidCommand",
         error_message |-> IF intent.variant = "InvalidCommand" THEN Some(intent.reason)
                           ELSE None]

ParseIntent(input) ==
    /\ resp' = [op |-> "parse_intent", input |-> input, result |-> parse_intent(input)]
    /\ UNCHANGED <<foreign_keys, assigned, DB_POOL, sources, chunks, docs, bm25, hnsw, buffer, pc, seen>>

MaxPieces == 4

\* the inputs: up to MaxPieces pieces, each a command, a word or a space
IntentPieces ==
    {CmdSummary, CmdDefine, CmdMore, <<"/", "M", "o", "r", "e">>, <<"/">>, <<"/", "a">>,
     <<"a">>, <<" ">>}

RECURSIVE Concat(_)
Concat(pieces) == IF pieces = <<>> THEN <<>> ELSE Head(pieces) \o Concat(Tail(pieces))

IntentInputs == {Concat(p) : p \in UNION {[1..n -> IntentPieces] : n \in 0..MaxPieces}}

NextIntent ==
    \/ resp = Idle /\ \E input \in IntentInputs : ParseIntent(input)
    \/ Return

SpecIntent == Init /\ [][NextIntent]_vars

\* the inputs the claim names as invalid: empty after trimming, /define with
\* an empty argument, or a slash command that is none of the three
NamedInvalid(input) ==
    LET trimmed == TrimLine(input)
        word == ToLowercase(FirstPart(trimmed))
    IN  \/ trimmed = <<>>
        \/ word = CmdDefine /\ SecondPart(trimmed) = <<>>
        \/ trimmed[1] = "/" /\ word \notin {CmdSummary, CmdDefine, CmdMore}

\* C33: parse_intent gives every input one of the five types; is_valid is
\* false exactly for type invalid, which is given exactly to the inputs that
\* are empty after trimming, /define without a term, or an unknown slash
\* command, and then error_message is present and not empty.
C33_IntentClassified ==
    resp.op = "parse_intent" =>
        LET r == resp.result
        IN  /\ r.intent_type \in {"summary", "define", "more", "general", "invalid"}
            /\ r.is_valid <=> r.intent_type # "invalid"
            /\ r.intent_type = "invalid" <=> NamedInvalid(resp.input)
            /\ ~r.is_valid => IsSome(r.error_message) /\ r.error_message[1] # <<>>

\* /define followed by white space alone was parsed as invalid
C33_Witness ==
    /\ resp.op = "parse_intent"
    /\ ~resp.result.is_valid
    /\ resp.result.query = CmdDefine
    /\ Len(resp.input) > Len(CmdDefine)

-----------------------------------------------------------------------------
(* add_source called by two callers, each on its own pooled connection.    *)
(* Each statement is one step: the SELECT by content_hash, then the        *)
(* INSERT, which the UNIQUE constraint on content_hash rejects when a row  *)
(* with that hash is there.                                                *)

Callers == {"c1", "c2"}

InitRace ==
    /\ foreign_keys = FALSE
    /\ assigned = None
    /\ DB_POOL = <<>>
    /\ sources = <<>>
    /\ chunks = <<>>
    /\ docs = <<>>
    /\ bm25 = EmptyIndex
    /\ hnsw = None
    /\ buffer = <<>>
    /\ resp = Idle
    /\ pc = [c \in Callers |-> "idle"]
    /\ seen = [c \in Callers |-> Idle]

\* the call is made: content_hash is computed and a connection taken
SourceBegin(c, content, metadata) ==
    /\ pc[c] = "idle"
    /\ pc' = [pc EXCEPT ![c] = "select"]
    /\ seen' = [d \in Callers |->
                  IF d = c
                  THEN [op |-> "add_source", content |-> content, metadata |-> metadata,
                        content_hash |-> hash_content(content),
                        interleaved |-> \E e \in Callers \ {c} : pc[e] # "idle"]
                  ELSE IF pc[d] # "idle" THEN [seen[d] EXCEPT !.interleaved = TRUE]
                  ELSE seen[d]]
    /\ UNCHANGED <<foreign_keys, assigned, DB_POOL, sources, chunks, docs, bm25, hnsw, buffer, resp>>

\* SELECT id FROM sources WHERE content_hash = ?1, and the duplicate's return
SourceSelect(c) ==
    /\ pc[c] = "select"
    /\ LET existing == FindSourceByHash(sources, seen[c].content_hash)
       IN  IF IsSome(existing)
           THEN /\ pc' = [pc EXCEPT ![c] = "done"]
                /\ resp' = [op |-> "add_source", caller |-> c, content |-> seen[c].content,
                            ok |-> TRUE, source_id |-> existing[1], is_duplicate |-> TRUE]
           ELSE /\ pc' = [pc EXCEPT ![c] = "insert"]
                /\ resp' = resp
    /\ UNCHANGED <<foreign_keys, assigned, DB_POOL, sources, chunks, docs, bm25, hnsw, buffer, seen>>

\* INSERT INTO sources ...: Err (left by ?) when the hash is already stored
SourceInsert(c) ==
    /\ pc[c] = "insert"
    /\ pc' = [pc EXCEPT ![c] = "done"]
    /\ IF IsSome(FindSourceByHash(sources, seen[c].content_hash))
       THEN /\ resp' = [op |-> "add_source", caller |-> c, content |-> seen[c].content,
                        ok |-> FALSE, source_id |-> 0, is_duplicate |-> FALSE]
            /\ sources' = sources
       ELSE /\ sources' = Append(sources, [id |-> NextRowId(sources),
                                           content |-> seen[c].content,
                                           content_hash |-> seen[c].content_hash,
                                           metadata |-> seen[c].metadata])
            /\ resp' = [op |-> "add_source", caller |-> c, content |-> seen[c].content,
                        ok |-> TRUE, source_id |-> NextRowId(sources),
                        is_duplicate |-> FALSE]
    /\ UNCHANGED <<foreign_keys, assigned, DB_POOL, chunks, docs, bm25, hnsw, buffer, seen>>

\* the caller has its result; seen keeps what the call returned and whether
\* the call ran while the other caller's call was running
SourceReturn(c) ==
    /\ pc[c] = "done"
    /\ resp.op = "add_source" /\ resp.caller = c
    /\ pc' = [pc EXCEPT ![c] = "idle"]
    /\ seen' = [seen EXCEPT ![c] = [op |-> "returned", content |-> resp.content,
                                    ok |-> resp.ok, source_id |-> resp.source_id,
                                    is_duplicate |-> resp.is_duplicate,
                                    interleaved |-> seen[c].interleaved]]
    /\ resp' = Idle
    /\ UNCHANGED <<foreign_keys, assigned, DB_POOL, sources, chunks, docs, bm25, hnsw, buffer>>

NextRace ==
    \/ \E c \in Callers, content \in SourceContents, metadata \in Metadatas :
          resp = Idle /\ SourceBegin(c, content, metadata)
    \/ \E c \in Callers : resp = Idle /\ SourceSelect(c)
    \/ \E c \in Callers : resp = Idle /\ SourceInsert(c)
    \/ \E c \in Callers : SourceReturn(c)

SpecRace == InitRace /\ [][NextRace]_vars

\* both callers have the result of an add_source for the same content, and
\* the two calls ran at the same time
BothReturned ==
    /\ \A c \in Callers : pc[c] = "idle" /\ seen[c].op = "returned" /\ seen[c].interleaved
    /\ seen["c1"].content = seen["c2"].content

\* C34: two add_source calls with the same content, interleaved on two
\* connections, both return Ok with the same source_id, exactly one of them
\* with is_duplicate = false, and one row holds that content_hash.
C34_ConcurrentAddSourceDeduplicates ==
    BothReturned =>
        /\ seen["c1"].ok /\ seen["c2"].ok
        /\ seen["c1"].source_id = seen["c2"].source_id
        /\ seen["c1"].is_duplicate # seen["c2"].is_duplicate
        /\ Cardinality({i \in 1..Len(sources) :
                           sources[i].content_hash = hash_content(seen["c1"].content)}) = 1

\* what the UNIQUE constraint does keep: a content_hash is stored once
C34_OneRowPerHash ==
    \A i, j \in 1..Len(sources) : sources[i].content_hash = sources[j].content_hash => i = j

-----------------------------------------------------------------------------
(* A merge driven by the caller (rebuild the HNSW index, then clear_buffer) *)
(* while another caller runs add_document. The merge is three steps: the   *)
(* points are read, the index is built and stored, the buffer is cleared.  *)
(* add_document is two: the row and its BM25 entry, then incremental_add.  *)

InitMerge ==
    /\ foreign_keys = FALSE
    /\ assigned = None
    /\ DB_POOL = <<>>
    /\ sources = <<>>
    /\ chunks = <<>>
    /\ docs = <<>>
    /\ bm25 = EmptyIndex
    /\ hnsw = None
    /\ buffer = <<>>
    /\ resp = Idle
    /\ pc = [merge |-> "idle", add |-> "idle"]
    /\ seen = [points |-> <<>>, doc |-> Idle, added |-> {}]

\* get_buffer_for_merge: the (id, embedding) pairs of the buffer
get_buffer_for_merge(buf) == buf

\* the points the merge builds from: the rows of docs, or the buffer's
\* entries combined with the rows that are not in the buffer
MergePoints(from, docTbl, buf) ==
    IF from = "store" THEN PointsOf(docTbl)
    ELSE LET entries == get_buffer_for_merge(buf)
         IN  SelectSeq(PointsOf(docTbl),
                       LAMBDA p : \A j \in 1..Len(entries) : entries[j].id # p.id)
             \o entries

MergeRead(from) ==
    /\ pc.merge = "idle"
    /\ pc' = [pc EXCEPT !.merge = "read"]
    /\ seen' = [seen EXCEPT !.points = MergePoints(from, docs, buffer)]
    /\ UNCHANGED <<foreign_keys, assigned, DB_POOL, sources, chunks, docs, bm25, hnsw, buffer, resp>>

\* build_hnsw_index(points), skipped by the rebuild when there are no points
MergeBuild ==
    /\ pc.merge = "read"
    /\ pc' = [pc EXCEPT !.merge = "built"]
    /\ hnsw' = build_hnsw_index(hnsw, seen.points)
    /\ UNCHANGED <<foreign_keys, assigned, DB_POOL, sources, chunks, docs, bm25, buffer, resp, seen>>

clear_buffer(buf) == <<>>

MergeClear ==
    /\ pc.merge = "built"
    /\ pc' = [pc EXCEPT !.merge = "idle"]
    /\ buffer' = clear_buffer(buffer)
    /\ seen' = [seen EXCEPT !.points = <<>>]
    /\ UNCHANGED <<foreign_keys, assigned, DB_POOL, sources, chunks, docs, bm25, hnsw, resp>>

\* add_document up to bm25_add_document; an empty embedding or a duplicate
\* returns at once
DocInsert(content, embedding) ==
    /\ pc.add = "idle"
    /\ LET r == add_document(docs, bm25, buffer, content, embedding)
       IN  /\ Len(r.docs) <= MaxDocs
           /\ docs' = r.docs
           /\ bm25' = r.bm25
           /\ IF r.success /\ ~r.is_duplicate
              THEN /\ pc' = [pc EXCEPT !.add = "inserted"]
                   /\ seen' = [seen EXCEPT !.doc = [op |-> "add_document",
                                                    id |-> NextRowId(docs),
                                                    embedding |-> embedding]]
                   /\ resp' = resp
              ELSE /\ resp' = [op |-> "add_document", success |-> r.success,
                               is_duplicate |-> r.is_duplicate]
                   /\ UNCHANGED <<pc, seen>>
    /\ UNCHANGED <<foreign_keys, assigned, DB_POOL, sources, chunks, hnsw, buffer>>

\* incremental_add(doc_id, embedding) and the return of add_document
DocBuffer ==
    /\ pc.add = "inserted"
    /\ pc' = [pc EXCEPT !.add = "idle"]
    /\ buffer' = incremental_add(buffer, seen.doc.id, seen.doc.embedding)
    /\ seen' = [seen EXCEPT !.doc = Idle, !.added = @ \cup {seen.doc.id}]
    /\ resp' = [op |-> "add_document", success |-> TRUE, is_duplicate |-> FALSE]
    /\ UNCHANGED <<foreign_keys, assigned, DB_POOL, sources, chunks, docs, bm25, hnsw>>

NextMerge ==
    \/ \E from \in {"store", "buffer"} : MergeRead(from)
    \/ MergeBuild
    \/ MergeClear
    \/ \E d \in DocInputs : resp = Idle /\ DocInsert(d.content, d.embedding)
    \/ resp = Idle /\ DocBuffer
    \/ Return

SpecMerge == InitMerge /\ [][NextMerge]_vars

\* C35: while merges and add_document calls interleave, every document that
\* incremental_add has put in the buffer is in the HNSW index or in the
\* buffer.
C35_MergeLosesNothing ==
    \A id \in seen.added :
        \/ id \in HnswIds(hnsw)
        \/ \E j \in 1..Len(buffer) : buffer[j].id = id

\* what holds: an entry missing from both was added while a merge ran, so a
\* rebuild from the Store finds it again
C35_LostOnlyFromIndexes ==
    \A id \in seen.added : id \in RowIds(docs)

-----------------------------------------------------------------------------
(* rebuild_bm25_index beside a reader. The rebuild takes the index lock    *)
(* twice, in bm25_clear_index and in bm25_add_documents, and reads docs    *)
(* between the two; bm25_search holds the read lock for one search.        *)

InitReaders ==
    /\ foreign_keys = FALSE
    /\ assigned = None
    /\ DB_POOL = <<>>
    /\ sources = <<>>
    /\ chunks = <<>>
    /\ docs = <<>>
    /\ bm25 = EmptyIndex
    /\ hnsw = None
    /\ buffer = <<>>
    /\ resp = Idle
    /\ pc = [rebuild |-> "idle"]
    /\ seen = [old |-> EmptyIndex, rows |-> <<>>]

\* bm25_clear_index() of rebuild_bm25_index
RebuildClear ==
    /\ pc.rebuild = "idle"
    /\ pc' = [pc EXCEPT !.rebuild = "cleared"]
    /\ seen' = [seen EXCEPT !.old = bm25]
    /\ bm25' = EmptyIndex
    /\ UNCHANGED <<foreign_keys, assigned, DB_POOL, sources, chunks, docs, hnsw, buffer, resp>>

\* SELECT id, content FROM docs
RebuildSelect ==
    /\ pc.rebuild = "cleared"
    /\ pc' = [pc EXCEPT !.rebuild = "selected"]
    /\ seen' = [seen EXCEPT !.rows = [i \in 1..Len(docs) |-> <<docs[i].id, docs[i].content>>]]
    /\ UNCHANGED <<foreign_keys, assigned, DB_POOL, sources, chunks, docs, bm25, hnsw, buffer, resp>>

\* bm25_add_documents(docs) when there are rows: one write lock for the batch
RebuildAddDocuments ==
    /\ pc.rebuild = "selected"
    /\ pc' = [pc EXCEPT !.rebuild = "idle"]
    /\ bm25' = IF seen.rows = <<>> THEN bm25 ELSE Bm25AddDocuments(bm25, seen.rows)
    /\ seen' = [seen EXCEPT !.rows = <<>>]
    /\ UNCHANGED <<foreign_keys, assigned, DB_POOL, sources, chunks, docs, hnsw, buffer, resp>>

\* bm25_search of a reader; the response keeps the index the search read,
\* the index from before the rebuild in course and the rows of docs
ReaderSearch(query, top_k) ==
    /\ \E r \in bm25_search(bm25, query, top_k) :
          resp' = [op |-> "bm25_search", query |-> query, results |-> r, index |-> bm25,
                   old |-> IF pc.rebuild = "idle" THEN bm25 ELSE seen.old,
                   rows |-> docs]
    /\ UNCHANGED <<foreign_keys, assigned, DB_POOL, sources, chunks, docs, bm25, hnsw, buffer, pc, seen>>

NextReaders ==
    \/ \E d \in DocInputs :
          resp = Idle /\ pc.rebuild = "idle" /\ AddDocument(d.content, d.embedding)
    \/ RebuildClear
    \/ RebuildSelect
    \/ RebuildAddDocuments
    \/ \E q \in {TxtAp, TxtBanana}, k \in 1..MaxTopK : resp = Idle /\ ReaderSearch(q, k)
    \/ Return

SpecReaders == InitReaders /\ [][NextReaders]_vars

\* C36: a bm25_search that runs beside rebuild_bm25_index reads the index
\* from before the rebuild or the index rebuilt from all rows of docs, when
\* docs has rows.
C36_RebuildAtomicForReaders ==
    (resp.op = "bm25_search" /\ resp.rows # <<>>) =>
        resp.index \in {resp.old, rebuild_bm25_index(resp.rows)}

\* what holds: the index a reader sees is never a part of the batch; it is
\* the old one, the rebuilt one or the empty one
C36_OldRebuiltOrEmpty ==
    (resp.op = "bm25_search" /\ resp.rows # <<>>) =>
        resp.index \in {resp.old, rebuild_bm25_index(resp.rows), EmptyIndex}

-----------------------------------------------------------------------------
(* incremental_search and search_chunks beside clear_hnsw_index. Each      *)
(* search is stepped through its reads of the HNSW lock: the check         *)
(* is_hnsw_index_loaded and the later search_hnsw are two lock sections.   *)

SearchOk(results) ==
    /\ resp' = [op |-> seen.op, args |-> seen.args, ok |-> TRUE, error |-> "none",
                results |-> results]
    /\ pc' = "idle"
    /\ seen' = Idle

\* the read of RECENT_BUFFER: the entries the scan scores
IncScanBuffer(query_embedding, top_k) ==
    /\ pc = "idle"
    /\ pc' = "inc_check"
    /\ seen' = [op |-> "incremental_search",
                args |-> [query_embedding |-> query_embedding, top_k |-> top_k],
                buffer |-> buffer]
    /\ UNCHANGED <<foreign_keys, assigned, DB_POOL, sources, chunks, docs, bm25, hnsw, buffer, resp>>

\* if is_hnsw_index_loaded() { ... }: without an index the buffer's results
\* are returned
IncCheckLoaded ==
    /\ pc = "inc_check"
    /\ IF is_hnsw_index_loaded(hnsw)
       THEN pc' = "inc_ann" /\ UNCHANGED <<resp, seen>>
       ELSE \E r \in incremental_search(seen.buffer, None, seen.args.query_embedding,
                                        seen.args.top_k) : SearchOk(r.results)
    /\ UNCHANGED <<foreign_keys, assigned, DB_POOL, sources, chunks, docs, bm25, hnsw, buffer>>

\* search_hnsw(query, top_k * 2)?  and the merge of the two result lists
IncSearchHnsw ==
    /\ pc = "inc_ann"
    /\ IF is_hnsw_index_loaded(hnsw)
       THEN \E r \in incremental_search(seen.buffer, hnsw, seen.args.query_embedding,
                                        seen.args.top_k) : SearchOk(r.results)
       ELSE SearchFails("HNSW index not initialized")
    /\ UNCHANGED <<foreign_keys, assigned, DB_POOL, sources, chunks, docs, bm25, hnsw, buffer>>

\* search_chunks: let hnsw_loaded = is_hnsw_index_loaded();
ChCheckLoaded(query_embedding, top_k) ==
    /\ pc = "idle"
    /\ pc' = IF is_hnsw_index_loaded(hnsw) THEN "ch_ann" ELSE "ch_rebuild"
    /\ seen' = [op |-> "search_chunks",
                args |-> [query_embedding |-> query_embedding, top_k |-> top_k]]
    /\ UNCHANGED <<foreign_keys, assigned, DB_POOL, sources, chunks, docs, bm25, hnsw, buffer, resp>>

\* rebuild_chunk_hnsw_index()?
ChRebuild ==
    /\ pc = "ch_rebuild"
    /\ hnsw' = rebuild_hnsw_from(hnsw, chunks)
    /\ pc' = "ch_recheck"
    /\ UNCHANGED <<foreign_keys, assigned, DB_POOL, sources, chunks, docs, bm25, buffer, resp, seen>>

\* if !is_hnsw_index_loaded() { return search_chunks_linear(...) }
ChRecheck ==
    /\ pc = "ch_recheck"
    /\ IF is_hnsw_index_loaded(hnsw)
       THEN pc' = "ch_ann" /\ UNCHANGED <<resp, seen>>
       ELSE SearchOk(search_chunks_linear(sources, chunks, seen.args.query_embedding,
                                          seen.args.top_k))
    /\ UNCHANGED <<foreign_keys, assigned, DB_POOL, sources, chunks, docs, bm25, hnsw, buffer>>

\* search_hnsw(query_embedding, top_k)?  and the rows of its results
ChSearchHnsw ==
    /\ pc = "ch_ann"
    /\ IF is_hnsw_index_loaded(hnsw)
       THEN \E r \in search_chunks(sources, chunks, hnsw, seen.args.query_embedding,
                                   seen.args.top_k).results : SearchOk(r)
       ELSE SearchFails("HNSW index not initialized")
    /\ UNCHANGED <<foreign_keys, assigned, DB_POOL, sources, chunks, docs, bm25, hnsw, buffer>>

\* clear_hnsw_index called by another thread while a search runs
ClearBeside ==
    /\ pc # "idle"
    /\ hnsw' = None
    /\ UNCHANGED <<foreign_keys, assigned, DB_POOL, sources, chunks, docs, bm25, buffer, resp, pc, seen>>

NextClear ==
    \/ pc = "idle" /\ resp = Idle /\ \E s \in SourceRows : AddSource(s.content, s.metadata)
    \/ pc = "idle" /\ resp = Idle /\ Len(chunks) < MaxSearchChunks
          /\ \E c \in ChunkInputs : AddChunks(1, <<c>>, 0)
    \/ pc = "idle" /\ resp = Idle /\ \E e \in {<<1, 0>>, <<0, 1>>} : IncrementalAdd(1, e)
    \/ pc = "idle" /\ resp = Idle /\ RebuildChunkHnswIndex
    \/ pc = "idle" /\ resp = Idle /\ ClearHnswIndex
    \/ resp = Idle /\ \E k \in 1..MaxTopK : IncScanBuffer(<<1, 0>>, k)
    \/ IncCheckLoaded
    \/ IncSearchHnsw
    \/ resp = Idle /\ \E k \in 1..MaxTopK : ChCheckLoaded(<<1, 0>>, k)
    \/ ChRebuild
    \/ ChRecheck
    \/ ChSearchHnsw
    \/ ClearBeside
    \/ Return

SpecClear == Init /\ [][NextClear]_vars

\* C37: an incremental_search or a search_chunks beside which
\* clear_hnsw_index ran returns Ok.
C37_SearchSurvivesClear ==
    resp.op \in {"incremental_search", "search_chunks"} => resp.ok

\* what holds: the one error these searches return here is the one of
\* search_hnsw on a cleared index
C37_FailsOnlyOnClearedIndex ==
    (resp.op \in {"incremental_search", "search_chunks"} /\ ~resp.ok) =>
        resp.error = "HNSW index not initialized" /\ ~is_hnsw_index_loaded(hnsw)

-----------------------------------------------------------------------------
(* The global locks. Each public operation is the sequence of lock         *)
(* acquisitions and releases its code makes; threads run operations side   *)
(* by side. A log macro reached while the logger is installed and the      *)
(* level is enabled takes the read lock of the log sink in                 *)
(* send_log_to_dart.                                                       *)

Locks == {"buffer", "hnsw", "bm25", "tokenizer", "pool", "sink"}

Read(l) == [kind |-> "read", lock |-> l]
Write(l) == [kind |-> "write", lock |-> l]
Release(l) == [kind |-> "release", lock |-> l]
Log == [kind |-> "log", lock |-> "sink"]

\* a clear_hnsw_index that empties the buffer before it releases the index
Locks_clear_hnsw_and_buffer ==
    <<Write("hnsw"), Write("buffer"), Release("buffer"), Log, Release("hnsw")>>

Locks_bm25_add_document ==
    <<Write("bm25"), Read("tokenizer"), Release("tokenizer"), Log, Release("bm25")>>
Locks_bm25_search ==
    <<Read("bm25"), Read("tokenizer"), Release("tokenizer"), Log, Release("bm25")>>
Locks_bm25_clear_index == <<Write("bm25"), Log, Release("bm25")>>
Locks_build_hnsw_index == <<Log, Write("hnsw"), Log, Release("hnsw")>>
Locks_search_hnsw == <<Log, Read("hnsw"), Log, Release("hnsw")>>
Locks_clear_hnsw_index == <<Write("hnsw"), Log, Release("hnsw")>>
Locks_incremental_add == <<Write("buffer"), Log, Release("buffer")>>
Locks_get_buffer_stats ==
    <<Read("buffer"), Read("hnsw"), Release("hnsw"), Release("buffer")>>
Locks_clear_buffer == <<Write("buffer"), Log, Release("buffer")>>
Locks_init_tokenizer == <<Write("tokenizer"), Release("tokenizer")>>
Locks_tokenize == <<Read("tokenizer"), Release("tokenizer")>>
Locks_init_log_stream == <<Write("sink"), Release("sink")>>
Locks_get_connection == <<Read("pool"), Release("pool")>>
Locks_close_db_pool == <<Write("pool"), Log, Release("pool")>>

LockPrograms ==
    [bm25_add_document |-> Locks_bm25_add_document,
     bm25_search |-> Locks_bm25_search,
     bm25_clear_index |-> Locks_bm25_clear_index,
     build_hnsw_index |-> Locks_build_hnsw_index,
     search_hnsw |-> Locks_search_hnsw,
     clear_hnsw_index |-> Locks_clear_hnsw_index,
     incremental_add |-> Locks_incremental_add,
     get_buffer_stats |-> Locks_get_buffer_stats,
     clear_buffer |-> Locks_clear_buffer,
     init_tokenizer |-> Locks_init_tokenizer,
     tokenize |-> Locks_tokenize,
     init_log_stream |-> Locks_init_log_stream,
     get_connection |-> Locks_get_connection,
     close_db_pool |-> Locks_close_db_pool]

MaxThreads == 2
MaxCalls == 1

Threads == 1..MaxThreads

NotRunning == [op |-> "idle", at |-> 0, logging |-> FALSE]

\* std::sync::RwLock leaves to the platform whether a reader is admitted
\* while a writer waits; log_enabled says whether log macros reach the sink
InitLocks ==
    /\ foreign_keys = FALSE
    /\ assigned = None
    /\ DB_POOL = <<>>
    /\ sources = <<>>
    /\ chunks = <<>>
    /\ docs = <<>>
    /\ bm25 = EmptyIndex
    /\ hnsw = None
    /\ buffer = <<>>
    /\ resp = Idle
    /\ pc = [t \in Threads |-> [op |-> "idle", at |-> 0, logging |-> FALSE, calls |-> 0]]
    /\ \E policy \in {"readers first", "writers first"}, log_enabled \in BOOLEAN :
          seen = [policy |-> policy, log_enabled |-> log_enabled,
                  writer |-> [l \in Locks |-> 0], readers |-> [l \in Locks |-> {}]]

Busy(t) == pc[t].op # "idle"

AtEnd(t) == Busy(t) /\ pc[t].at > Len(LockPrograms[pc[t].op])

Instr(t) == LockPrograms[pc[t].op][pc[t].at]

HeldBy(t) == {l \in Locks : seen.writer[l] = t \/ t \in seen.readers[l]}

\* the lock the thread is about to take, if it is about to take one
Wants(t, kind, l) ==
    /\ Busy(t) /\ ~AtEnd(t)
    /\ \/ Instr(t) = [kind |-> kind, lock |-> l]
       \/ kind = "read" /\ l = "sink" /\ Instr(t).kind = "log" /\ seen.log_enabled
                        /\ ~pc[t].logging

CanRead(t, l) ==
    /\ seen.writer[l] = 0
    /\ seen.policy = "readers first" \/ ~\E u \in Threads \ {t} : Wants(u, "write", l)

CanWrite(t, l) == seen.writer[l] = 0 /\ seen.readers[l] = {}

Call(t, op) ==
    /\ ~Busy(t)
    /\ pc[t].calls < MaxCalls
    /\ pc' = [pc EXCEPT ![t] = [op |-> op, at |-> 1, logging |-> FALSE, calls |-> @.calls + 1]]
    /\ UNCHANGED <<foreign_keys, assigned, DB_POOL, sources, chunks, docs, bm25, hnsw, buffer, resp, seen>>

\* RwLock::read() / RwLock::write() returns
AcquireLock(t) ==
    /\ Busy(t) /\ ~AtEnd(t)
    /\ \/ /\ Instr(t).kind = "read" /\ CanRead(t, Instr(t).lock)
          /\ seen' = [seen EXCEPT !.readers[Instr(t).lock] = @ \cup {t}]
       \/ /\ Instr(t).kind = "write" /\ CanWrite(t, Instr(t).lock)
          /\ seen' = [seen EXCEPT !.writer[Instr(t).lock] = t]
    /\ pc' = [pc EXCEPT ![t].at = @ + 1]
    /\ UNCHANGED <<foreign_keys, assigned, DB_POOL, sources, chunks, docs, bm25, hnsw, buffer, resp>>

\* the guard is dropped
ReleaseLock(t) ==
    /\ Busy(t) /\ ~AtEnd(t)
    /\ Instr(t).kind = "release"
    /\ seen' = [seen EXCEPT !.readers[Instr(t).lock] = @ \ {t},
                            !.writer[Instr(t).lock] = IF @ = t THEN 0 ELSE @]
    /\ pc' = [pc EXCEPT ![t].at = @ + 1]
    /\ UNCHANGED <<foreign_keys, assigned, DB_POOL, sources, chunks, docs, bm25, hnsw, buffer, resp>>

\* send_log_to_dart: DART_LOG_SINK.read()
LogTake(t) ==
    /\ Wants(t, "read", "sink") /\ Instr(t).kind = "log"
    /\ CanRead(t, "sink")
    /\ seen' = [seen EXCEPT !.readers["sink"] = @ \cup {t}]
    /\ pc' = [pc EXCEPT ![t].logging = TRUE]
    /\ UNCHANGED <<foreign_keys, assigned, DB_POOL, sources, chunks, docs, bm25, hnsw, buffer, resp>>

\* send_log_to_dart returns and its guard is dropped
LogDone(t) ==
    /\ Busy(t) /\ ~AtEnd(t)
    /\ Instr(t).kind = "log" /\ pc[t].logging
    /\ seen' = [seen EXCEPT !.readers["sink"] = @ \ {t}]
    /\ pc' = [pc EXCEPT ![t].logging = FALSE, ![t].at = @ + 1]
    /\ UNCHANGED <<foreign_keys, assigned, DB_POOL, sources, chunks, docs, bm25, hnsw, buffer, resp>>

\* a log macro with no logger installed or below the level: no lock
LogSkip(t) ==
    /\ Busy(t) /\ ~AtEnd(t)
    /\ Instr(t).kind = "log" /\ ~seen.log_enabled
    /\ pc' = [pc EXCEPT ![t].at = @ + 1]
    /\ UNCHANGED <<foreign_keys, assigned, DB_POOL, sources, chunks, docs, bm25, hnsw, buffer, resp, seen>>

\* the operation returns
CallReturns(t) ==
    /\ AtEnd(t)
    /\ pc' = [pc EXCEPT ![t].op = "idle", ![t].at = 0]
    /\ UNCHANGED <<foreign_keys, assigned, DB_POOL, sources, chunks, docs, bm25, hnsw, buffer, resp, seen>>

ThreadStep(t) ==
    AcquireLock(t) \/ ReleaseLock(t) \/ LogTake(t) \/ LogDone(t) \/ LogSkip(t) \/ CallReturns(t)

NextLocks ==
    \/ \E t \in Threads, op \in DOMAIN LockPrograms : Call(t, op)
    \/ \E t \in Threads : AcquireLock(t)
    \/ \E t \in Threads : ReleaseLock(t)
    \/ \E t \in Threads : LogTake(t)
    \/ \E t \in Threads : LogDone(t)
    \/ \E t \in Threads : LogSkip(t)
    \/ \E t \in Threads : CallReturns(t)

SpecLocks == InitLocks /\ [][NextLocks]_vars

\* a thread that can run does run: the scheduler leaves no runnable thread
\* waiting for ever
SpecLocksFair == SpecLocks /\ \A t \in Threads : WF_vars(ThreadStep(t))

\* the order in which the operations nest the locks
LockRank ==
    [buffer |-> 1, hnsw |-> 2, bm25 |-> 3, tokenizer |-> 4, pool |-> 5, sink |-> 6]

\* the step the thread is at can be taken
CanStep(t) ==
    \/ AtEnd(t)
    \/ /\ Busy(t) /\ ~AtEnd(t)
       /\ \/ Instr(t).kind = "release"
          \/ Instr(t).kind = "read" /\ CanRead(t, Instr(t).lock)
          \/ Instr(t).kind = "write" /\ CanWrite(t, Instr(t).lock)
          \/ Instr(t).kind = "log" /\ (pc[t].logging \/ ~seen.log_enabled \/ CanRead(t, "sink"))

\* every lock a thread is about to take comes after the locks it holds (so
\* it holds none of them twice), and some running thread can take its step
LockDiscipline ==
    /\ \A t \in Threads, l \in Locks :
          (Wants(t, "read", l) \/ Wants(t, "write", l)) =>
              \A h \in HeldBy(t) : LockRank[h] < LockRank[l]
    /\ (\E t \in Threads : Busy(t)) => \E t \in Threads : Busy(t) /\ CanStep(t)

\* C38: the operations take the global locks in one order and never one they
\* hold, no interleaving of them leaves every running thread blocked, and
\* every operation that was called returns.
C38_NoDeadlock ==
    /\ []LockDiscipline
    /\ \A t \in Threads : Busy(t) ~> ~Busy(t)

\* a thread that holds a lock is blocked on the next one by another thread
C38_Witness ==
    \E t \in Threads : Busy(t) /\ ~CanStep(t) /\ HeldBy(t) # {}

-----------------------------------------------------------------------------
(* markdown_chunk on arrangements of headers, prose, tables and fences,    *)
(* one block after the other without an empty line between them.           *)

HeaderBlock == <<<<"#", " ", "T">>>>
ProseBlock == <<<<"p", ".">>>>
TableBlock == <<<<"|", "a", "|">>, <<"|", "-", "|">>>>
FencedBlock == <<Fence \o <<"r", "s">>, <<"c", "1">>, Fence>>
\* a fence that is never closed
OpenFenceBlock == <<Fence \o <<"p", "y">>, <<"c", "2">>>>

ArrangedBlocks == {HeaderBlock, ProseBlock, TableBlock, FencedBlock, OpenFenceBlock}

MaxBlocks == 3

\* up to MaxBlocks different blocks in any order
Arrangements ==
    {Concat(p) : p \in {q \in UNION {[1..n -> ArrangedBlocks] : n \in 1..MaxBlocks} :
                           \A i, j \in 1..Len(q) : q[i] = q[j] => i = j}}

NextArranged ==
    \/ resp = Idle /\ \E text \in Arrangements, max_chars \in MaxCharsInputs :
                         MarkdownChunk(text, max_chars)
    \/ Return

SpecArranged == Init /\ [][NextArranged]_vars

\* the line of the text where a chunk begins
LineOf(text, chunk) == CHOOSE k \in 1..Len(text) : text[k] = chunk.content[1]

Covered(text, chunk_list) ==
    \A k \in 1..Len(text) :
        ~IsBlank(text[k]) =>
            \E i \in 1..Len(chunk_list) :
                \E m \in 1..Len(chunk_list[i].content) : chunk_list[i].content[m] = text[k]

InDocumentOrder(text, chunk_list) ==
    \A i \in 1..(Len(chunk_list) - 1) :
        LineOf(text, chunk_list[i]) < LineOf(text, chunk_list[i + 1])

\* C39: every line of the input that is not blank is in some chunk of
\* markdown_chunk, and the chunks come in the order of the document, for
\* every arrangement of headers, tables and fences.
C39_CoversInputInOrder ==
    resp.op = "markdown_chunk" =>
        Covered(resp.text, resp.chunks) /\ InDocumentOrder(resp.text, resp.chunks)

\* the arrangements in which every fence is closed and no fence follows a
\* table at once
WellFormed(text) ==
    /\ \A k \in 1..Len(text) : text[k] # OpenFenceBlock[1]
    /\ \A k \in 1..(Len(text) - 1) :
          IsTableLine(text[k]) => ~StartsWith(TrimLine(text[k + 1]), Fence)

\* what holds: these arrangements are covered in order
C39_CoversWellFormed ==
    (resp.op = "markdown_chunk" /\ WellFormed(resp.text)) =>
        Covered(resp.text, resp.chunks) /\ InDocumentOrder(resp.text, resp.chunks)

-----------------------------------------------------------------------------
(* markdown_chunk on documents with headers of several levels.             *)

HeaderLines ==
    {<<"#", " ", "A">>, <<"#", " ", "D">>, <<"#", "#", " ", "B">>,
     <<"#", "#", "#", " ", "C">>}

OutlineBlocks == {<<h>> : h \in HeaderLines} \cup {ProseBlock, TableBlock, FencedBlock}

MaxOutline == 4

Outlines == {Concat(p) : p \in UNION {[1..n -> OutlineBlocks] : n \in 1..MaxOutline}}

NextOutline ==
    \/ resp = Idle /\ \E text \in Outlines : MarkdownChunk(text, MinMaxChars)
    \/ Return

SpecOutline == Init /\ [][NextOutline]_vars

\* the stack section s was chunked with, and the one before it
StackAt(s) == resp.stacks[s]
StackBefore(s) == IF s = 1 THEN <<>> ELSE resp.stacks[s - 1]

\* C40: the header stack has strictly increasing levels from bottom to top;
\* the header_path of every chunk is the texts of the stack joined by " > ";
\* a header of level L removes every stacked header of level >= L and is
\* then pushed; a section without a header (code, table, prose after them)
\* is chunked with the stack of the section before it.
C40_HeaderStack ==
    resp.op = "markdown_chunk" =>
        /\ \A s \in 1..Len(resp.sections) :
              /\ \A i \in 1..(Len(StackAt(s)) - 1) :
                    StackAt(s)[i].level < StackAt(s)[i + 1].level
              /\ IF IsSome(resp.sections[s].header)
                 THEN StackAt(s) =
                         Append(SelectSeq(StackBefore(s),
                                          LAMBDA h : h.level < resp.sections[s].header[1].level),
                                resp.sections[s].header[1])
                 ELSE StackAt(s) = StackBefore(s)
        /\ \A i \in 1..Len(resp.chunks) :
              resp.chunks[i].header_path =
                  JoinPath([j \in 1..Len(StackAt(resp.origin[i])) |->
                               StackAt(resp.origin[i])[j].text])

\* a header took a header of its own level off a stack of two, and a code or
\* table chunk after it carries the path of two headers
C40_Witness ==
    /\ resp.op = "markdown_chunk"
    /\ \E s \in 2..Len(resp.sections) :
          /\ IsSome(resp.sections[s].header)
          /\ Len(StackBefore(s)) = 2
          /\ StackBefore(s)[2].level = resp.sections[s].header[1].level
          /\ \E i \in 1..Len(resp.chunks) :
                /\ resp.origin[i] > s
                /\ resp.chunks[i].chunk_type.kind \in {"code", "table"}
                /\ Len(StackAt(resp.origin[i])) = 2
                /\ resp.chunks[i].header_path # <<>>

====
